---------------------------- MODULE Spec2Model ----------------------------
(***************************************************************************)
(* PartSelect backend: the relational query tool (sql_search_tool), the    *)
(* semantic search tool (vector_search_tool), the control loop behind the  *)
(* chat endpoint (run_query on the ReAct agent) and the session /          *)
(* tool-call logger.                                                       *)
(*                                                                         *)
(* Texts that the code inspects character by character (the SQL query)     *)
(* are sequences of one-character strings.  Texts that the code only       *)
(* builds by formatting (error messages, replies) are sequences of the     *)
(* parts the f-string concatenates.                                        *)
(***************************************************************************)
EXTENDS Integers, Sequences, FiniteSets, TLC

(***************************************************************************)
(* Bounds of the model.                                                    *)
(***************************************************************************)
\* A query is the concatenation of 1..MaxFrags fragments of Fragments.
MaxFrags == 3
\* fetchall() returns 0..MaxRows rows.
MaxRows == 2

(***************************************************************************)
(* Characters and the string functions sql_search_tool uses.               *)
(***************************************************************************)
LowerChars == <<"a","b","c","d","e","f","g","h","i","j","k","l","m",
                "n","o","p","q","r","s","t","u","v","w","x","y","z">>
UpperChars == <<"A","B","C","D","E","F","G","H","I","J","K","L","M",
                "N","O","P","Q","R","S","T","U","V","W","X","Y","Z">>

\* str.upper() on one character: lower-case letters map to their capital,
\* every other character is unchanged.
UpperChar(c) ==
    IF \E i \in 1..Len(LowerChars) : LowerChars[i] = c
    THEN UpperChars[CHOOSE i \in 1..Len(LowerChars) : LowerChars[i] = c]
    ELSE c

\* str.upper()
Upper(s) == [i \in 1..Len(s) |-> UpperChar(s[i])]

\* The characters str.strip() removes.
Whitespace == {" ", "\t", "\n"}

RECURSIVE LStrip(_)
LStrip(s) ==
    IF s # <<>> /\ Head(s) \in Whitespace THEN LStrip(Tail(s)) ELSE s

RECURSIVE RStrip(_)
RStrip(s) ==
    IF s # <<>> /\ s[Len(s)] \in Whitespace
    THEN RStrip(SubSeq(s, 1, Len(s) - 1))
    ELSE s

\* str.strip()
Strip(s) == RStrip(LStrip(s))

\* str.startswith(p)
StartsWith(s, p) == Len(s) >= Len(p) /\ SubSeq(s, 1, Len(p)) = p

\* p in s (substring test)
Contains(s, p) ==
    \E i \in 1..(Len(s) - Len(p) + 1) : SubSeq(s, i, i + Len(p) - 1) = p

SELECT == <<"S","E","L","E","C","T">>

\* dangerous_keywords, in the order of the list
DangerousKeywords ==
    << <<"D","R","O","P">>,
       <<"D","E","L","E","T","E">>,
       <<"I","N","S","E","R","T">>,
       <<"U","P","D","A","T","E">>,
       <<"A","L","T","E","R">>,
       <<"C","R","E","A","T","E">>,
       <<"T","R","U","N","C","A","T","E">>,
       <<"G","R","A","N","T">>,
       <<"R","E","V","O","K","E">> >>

(***************************************************************************)
(* Inputs of sql_search_tool.                                              *)
(***************************************************************************)
Fragments ==
    { SELECT,
      <<"s","e","l","e","c","t">>,
      <<" ">>,
      <<"x">>,
      <<"d","r","o","p">>,
      <<"D","R">>,
      <<"O","P">>,
      <<"d","e","l","e","t","e">>,
      <<"I","n","s","e","r","t">>,
      <<"U","P","D","A","T","E">>,
      <<"a","l","t","e","r">>,
      <<"C","R","E","A","T","E">>,
      <<"t","r","u","n","c","a","t","e">>,
      <<"G","r","A","n","T">>,
      <<"r","e","v","o","k","e">> }

RECURSIVE Concat(_)
Concat(fs) == IF fs = <<>> THEN <<>> ELSE Head(fs) \o Concat(Tail(fs))

QueryTexts ==
    {<<>>} \cup
    { Concat(fs) : fs \in UNION { [1..n -> Fragments] : n \in 1..MaxFrags } }

\* "DROP TABLE parts", "SELECT * FORM parts": the inputs of test_error_handling
DropTableParts ==
    <<"D","R","O","P"," ","T","A","B","L","E"," ","p","a","r","t","s">>
SelectFormParts ==
    <<"S","E","L","E","C","T"," ","*"," ","F","O","R","M"," ",
      "p","a","r","t","s">>

\* What a caller can pass as sql_query: a str, or a value of another type
\* (truthy or falsy).
\* "SELECT created_at FROM parts": a read of a column the tool description
\* documents (lines 58-76)
SelectCreatedAt ==
    <<"S","E","L","E","C","T"," ","c","r","e","a","t","e","d","_","a","t",
      " ","F","R","O","M"," ","p","a","r","t","s">>

StrInput(t) == [type |-> "str", text |-> t, truthy |-> t # <<>>]
SqlInputs ==
    { StrInput(t) :
        t \in QueryTexts \cup {DropTableParts, SelectFormParts, SelectCreatedAt} }
    \cup { [type |-> "NoneType", text |-> <<>>, truthy |-> FALSE],
           [type |-> "int", text |-> <<>>, truthy |-> TRUE] }

(***************************************************************************)
(* Exceptions the database layer can raise.  isPg: an instance of          *)
(* psycopg2.Error.  lines: str(e), split at its line breaks.               *)
(***************************************************************************)
DbExceptions ==
    { [isPg |-> TRUE,
       lines |-> <<"syntax error at or near \"FORM\"",
                   "LINE 1: SELECT * FORM parts">>],
      [isPg |-> TRUE,
       lines |-> <<"relation \"nonexistent_table\" does not exist">>],
      [isPg |-> FALSE,
       lines |-> <<"connection already closed">>] }

VARIABLES
    sqlPc,          \* position inside sql_search_tool
    sqlInput,       \* the sql_query argument
    sqlReturn,      \* how the call ended: [kind, value]
    connAcquired,   \* connections obtained from get_connection()
    connClosed,     \* connections closed by conn.close()
    dbExecuted,     \* query texts handed to cursor.execute()
    sqlExc          \* the exception raised inside the try block, if any

sqlVars ==
    <<sqlPc, sqlInput, sqlReturn, connAcquired, connClosed, dbExecuted, sqlExc>>

NoExc == [isPg |-> FALSE, lines |-> <<>>]

NoReturn == [kind |-> "none", value |-> <<>>]
Returned(v) == [kind |-> "list", value |-> v]
Raised(e) == [kind |-> "raise", value |-> e.lines]

(***************************************************************************)
(* sql_search_tool: validation (lines 103-116).                            *)
(***************************************************************************)
InvalidInputError ==
    [error |-> <<"Invalid input: sql_query must be a non-empty string">>]
OnlySelectError ==
    [error |-> <<"Only SELECT queries are allowed. No INSERT, UPDATE, DELETE, DROP, or other modifying statements.">>]
\* The keywords as the f-string prints them.
KeywordNames ==
    <<"DROP", "DELETE", "INSERT", "UPDATE", "ALTER", "CREATE", "TRUNCATE",
      "GRANT", "REVOKE">>
\* k: the keyword's place in dangerous_keywords
DangerousKeywordError(k) ==
    [error |-> <<"Dangerous SQL keyword '", KeywordNames[k],
                 "' detected. Only SELECT queries are allowed.">>]

\* The first keyword of the list found in query_upper (the for loop returns
\* at the first hit), 0 if none.
FirstDangerous(query_upper) ==
    IF \E k \in 1..Len(DangerousKeywords) :
           Contains(query_upper, DangerousKeywords[k])
    THEN CHOOSE k \in 1..Len(DangerousKeywords) :
           /\ Contains(query_upper, DangerousKeywords[k])
           /\ \A j \in 1..(k - 1) : ~Contains(query_upper, DangerousKeywords[j])
    ELSE 0

\* Mutant: the denylist is searched in the query as typed, not in its
\* upper-cased form.
ValidationResultCaseSensitive(sql_query) ==
    IF ~sql_query.truthy \/ sql_query.type # "str"
    THEN <<InvalidInputError>>
    ELSE LET query_upper == Upper(Strip(sql_query.text))
         IN  IF ~StartsWith(query_upper, SELECT)
             THEN <<OnlySelectError>>
             ELSE IF FirstDangerous(Strip(sql_query.text)) # 0
                  THEN <<DangerousKeywordError(
                            FirstDangerous(Strip(sql_query.text)))>>
                  ELSE <<>>

\* Mutant: SELECT is looked for anywhere in the query, not at its start.
ValidationResultSelectAnywhere(sql_query) ==
    IF ~sql_query.truthy \/ sql_query.type # "str"
    THEN <<InvalidInputError>>
    ELSE LET query_upper == Upper(Strip(sql_query.text))
         IN  IF ~Contains(query_upper, SELECT)
             THEN <<OnlySelectError>>
             ELSE IF FirstDangerous(query_upper) # 0
                  THEN <<DangerousKeywordError(FirstDangerous(query_upper))>>
                  ELSE <<>>

\* Mutant: the denylist is checked before the SELECT check.
ValidationResultDenylistFirst(sql_query) ==
    IF ~sql_query.truthy \/ sql_query.type # "str"
    THEN <<InvalidInputError>>
    ELSE LET query_upper == Upper(Strip(sql_query.text))
         IN  IF FirstDangerous(query_upper) # 0
             THEN <<DangerousKeywordError(FirstDangerous(query_upper))>>
             ELSE IF ~StartsWith(query_upper, SELECT)
                  THEN <<OnlySelectError>>
                  ELSE <<>>

\* The whitespace-delimited words of s (str.split()).
Tokens(s) ==
    { SubSeq(s, i, j) : <<i, j>> \in
        { ij \in (1..Len(s)) \X (1..Len(s)) :
            /\ ij[1] <= ij[2]
            /\ \A k \in ij[1]..ij[2] : s[k] \notin Whitespace
            /\ ij[1] = 1 \/ s[ij[1] - 1] \in Whitespace
            /\ ij[2] = Len(s) \/ s[ij[2] + 1] \in Whitespace } }

\* Mutant: the denylist is compared with the words of the query, not
\* searched as substrings.
ValidationResultTokenDenylist(sql_query) ==
    IF ~sql_query.truthy \/ sql_query.type # "str"
    THEN <<InvalidInputError>>
    ELSE LET query_upper == Upper(Strip(sql_query.text))
         IN  IF ~StartsWith(query_upper, SELECT)
             THEN <<OnlySelectError>>
             ELSE IF \E k \in 1..Len(DangerousKeywords) :
                        DangerousKeywords[k] \in Tokens(query_upper)
                  THEN <<DangerousKeywordError(
                            CHOOSE k \in 1..Len(DangerousKeywords) :
                                DangerousKeywords[k] \in Tokens(query_upper))>>
                  ELSE <<>>

\* The result validation returns, <<>> when the query passes.
ValidationResult(sql_query) ==
    IF ~sql_query.truthy \/ sql_query.type # "str"
    THEN <<InvalidInputError>>
    ELSE LET query_upper == Upper(Strip(sql_query.text))
         IN  IF ~StartsWith(query_upper, SELECT)
             THEN <<OnlySelectError>>
             ELSE IF FirstDangerous(query_upper) # 0
                  THEN <<DangerousKeywordError(FirstDangerous(query_upper))>>
                  ELSE <<>>

Validate ==
    /\ sqlPc = "validate"
    /\ IF ValidationResult(sqlInput) # <<>>
       THEN /\ sqlReturn' = Returned(ValidationResult(sqlInput))
            /\ sqlPc' = "returned"
       ELSE /\ sqlPc' = "connect"
            /\ UNCHANGED sqlReturn
    /\ UNCHANGED <<sqlInput, connAcquired, connClosed, dbExecuted, sqlExc>>

(***************************************************************************)
(* sql_search_tool: execution (lines 118-149).                             *)
(***************************************************************************)
\* Mutant: only psycopg2.Error is caught; any other exception leaves the
\* function.
ExceptResultOnlyPg(e, sql_query) ==
    IF e.isPg
    THEN Returned(<<[error |-> <<"SQL execution error: ", Head(e.lines)>>,
                     query |-> sql_query.text]>>)
    ELSE Raised(e)

\* Mutant: the except clauses return the error text alone.
ExceptResultNoQuery(e, sql_query) ==
    IF e.isPg
    THEN Returned(<<[error |-> <<"SQL execution error: ", Head(e.lines)>>]>>)
    ELSE Returned(<<[error |-> <<"Tool execution error: ">> \o e.lines]>>)

\* except psycopg2.Error / except Exception
ExceptResult(e, sql_query) ==
    IF e.isPg
    THEN Returned(<<[error |-> <<"SQL execution error: ", Head(e.lines)>>,
                     query |-> sql_query.text]>>)
    ELSE Returned(<<[error |-> <<"Tool execution error: ">> \o e.lines,
                     query |-> sql_query.text]>>)

\* An exception raised inside the try block at the current statement: the
\* matching except clause returns; nothing else runs.
RaiseInTry(e) ==
    /\ sqlExc' = e
    /\ sqlReturn' = ExceptResult(e, sqlInput)
    /\ sqlPc' = "returned"

\* conn = db.get_connection()
Connect ==
    /\ sqlPc = "connect"
    /\ \/ /\ connAcquired' = connAcquired + 1
          /\ sqlPc' = "cursor"
          /\ UNCHANGED <<sqlReturn, sqlExc>>
       \/ /\ \E e \in DbExceptions : RaiseInTry(e)
          /\ UNCHANGED connAcquired
    /\ UNCHANGED <<sqlInput, connClosed, dbExecuted>>

\* cursor = conn.cursor()
Cursor ==
    /\ sqlPc = "cursor"
    /\ \/ /\ sqlPc' = "execute"
          /\ UNCHANGED <<sqlReturn, sqlExc>>
       \/ \E e \in DbExceptions : RaiseInTry(e)
    /\ UNCHANGED <<sqlInput, connAcquired, connClosed, dbExecuted>>

\* cursor.execute(sql_query)
Execute ==
    /\ sqlPc = "execute"
    /\ \/ /\ dbExecuted' = Append(dbExecuted, sqlInput.text)
          /\ sqlPc' = "fetch"
          /\ UNCHANGED <<sqlReturn, sqlExc>>
       \/ /\ \E e \in DbExceptions : RaiseInTry(e)
          /\ UNCHANGED dbExecuted
    /\ UNCHANGED <<sqlInput, connAcquired, connClosed>>

\* results = cursor.fetchall(); cursor.close(); conn.close(); return rows
FetchCloseReturn ==
    /\ sqlPc = "fetch"
    /\ \/ \E n \in 0..MaxRows :
             /\ connClosed' = connClosed + 1
             /\ sqlReturn' = Returned([i \in 1..n |-> [part_id |-> i]])
             /\ sqlPc' = "returned"
             /\ UNCHANGED sqlExc
       \/ /\ \E e \in DbExceptions : RaiseInTry(e)
          /\ UNCHANGED connClosed
    /\ UNCHANGED <<sqlInput, connAcquired, dbExecuted>>

SqlInit ==
    /\ sqlPc = "validate"
    /\ sqlInput \in SqlInputs
    /\ sqlReturn = NoReturn
    /\ connAcquired = 0
    /\ connClosed = 0
    /\ dbExecuted = <<>>
    /\ sqlExc = NoExc


(***************************************************************************)
(* Texts of the chat side: [parts, len], the pieces a text is formatted    *)
(* from and its number of characters.                                      *)
(***************************************************************************)
Text(p, n) == [parts |-> p, len |-> n]
EmptyText == Text(<<>>, 0)

\* text[:200]
Prefix200(t) ==
    IF t.len > 200 THEN Text(<<"[:200]">> \o t.parts, 200) ELSE t

\* a + b
TextConcat(a, b) == Text(a.parts \o b.parts, a.len + b.len)

(***************************************************************************)
(* Bounds and inputs of the chat side.                                     *)
(***************************************************************************)
\* Chat requests handled in one behaviour.
MaxRequests == 2
\* Tool calls one decision step (one AIMessage) can carry.
MaxCallsPerStep == 2

\* conversation_id values callers send; NoConversation: the field is absent.
ConversationIds == { <<"conv", 1>> }
NoConversation == <<"none", 0>>

UserMessages == { Text(<<"ice maker not working">>, 21) }

\* Final answers of the decision step (over 200 characters, so that the
\* logger stores them cut; the texts of failed runs are short).
AnswerTexts ==
    { Text(<<"Here are the steps to repair ...">>, 450) }

\* str(content) of a tool's result
ToolResultText == Text(<<"[{'part_name': ...}]">>, 350)

\* What the text-generation capability raises when it is unavailable.
UpstreamErrors == { Text(<<"Connection error.">>, 17) }

(***************************************************************************)
(* Agent configuration (agent_config.py, routes/chat.py).                  *)
(***************************************************************************)
\* max_iterations=5 of the chat endpoint's agent
ChatMaxIterations == 5
\* config={"recursion_limit": 10} of run_query
RecursionLimit == 10

\* tools = [sql_search_tool, vector_search_tool]
ToolNames == <<"sql_search_tool", "vector_search_tool">>

\* create_partselect_agent: the agent it builds is made of the model, the
\* tools and the prompt; max_iterations (like verbose) is not passed on.
CreatePartselectAgent(max_iterations) ==
    [tools |-> ToolNames, prompt |-> "SYSTEM_PROMPT"]

\* agent = create_partselect_agent(provider="claude", max_iterations=5, ...)
agent == CreatePartselectAgent(ChatMaxIterations)

\* str(GraphRecursionError)
RecursionErrorText ==
    Text(<<"Recursion limit of ", "10",
           " reached without hitting a stop condition.">>, 61)

\* The message the prebuilt agent substitutes for a decision that asks for
\* tools when too few steps remain.
NeedMoreStepsText ==
    Text(<<"Sorry, need more steps to process this request.">>, 47)

(***************************************************************************)
(* Transcript messages.                                                    *)
(***************************************************************************)
HumanMessage(content) ==
    [type |-> "human", content |-> content, tool_calls |-> <<>>,
     tool_call_id |-> 0, name |-> "None"]
AIMessage(content, calls) ==
    [type |-> "ai", content |-> content, tool_calls |-> calls,
     tool_call_id |-> 0, name |-> "None"]
ToolMessage(content, name, id) ==
    [type |-> "tool", content |-> content, tool_calls |-> <<>>,
     tool_call_id |-> id, name |-> name]

\* ToolCall = {id, name, args}
ToolCall(id, name) == [id |-> id, name |-> name, args |-> "args"]

\* The number of ToolCalls in a transcript.
RECURSIVE CountToolCalls(_)
CountToolCalls(msgs) ==
    IF msgs = <<>> THEN 0
    ELSE Len(Head(msgs).tool_calls) + CountToolCalls(Tail(msgs))

VARIABLES
    sessions,       \* ToolCallLogger.sessions: live id -> session record
    files,          \* log_dir: file name -> the record written
    now,            \* datetime.now(), in seconds
    uuidCount,      \* uuid4() values handed out
    requestsDone,   \* chat requests started
    chatPc,         \* position of the request in flight
    sessionId,      \* session_id of the request
    userMessage,    \* request.message
    transcript,     \* the agent's message list
    step,           \* super-steps the agent graph has run
    invoke,         \* agent.invoke: [status, exc]
    exhausted,      \* the step limit ended the loop
    toolCallsRun,   \* tool calls dispatched in this run
    result,         \* what run_query returned
    response,       \* what the endpoint returned
    saveFailed,     \* _save_session raised in this request
    lenBefore       \* exchanges of the session when the request arrived

loggerVars == <<sessions, files, now>>
chatVars ==
    <<uuidCount, requestsDone, chatPc, sessionId, userMessage, transcript,
      step, invoke, exhausted, toolCallsRun, result, response, saveFailed,
      lenBefore>>

(***************************************************************************)
(* ToolCallLogger (services/tool_call_logger.py).                          *)
(***************************************************************************)
\* Mutant: created_at is the time the logger was built, not the time of
\* the call.
CreateSessionAtStart(ss, session_id, t) ==
    [id \in DOMAIN ss \cup {session_id} |->
        IF id = session_id
        THEN [session_id |-> session_id, created_at |-> 0, messages |-> <<>>]
        ELSE ss[id]]

\* create_session
CreateSession(ss, session_id, t) ==
    [id \in DOMAIN ss \cup {session_id} |->
        IF id = session_id
        THEN [session_id |-> session_id, created_at |-> t, messages |-> <<>>]
        ELSE ss[id]]

ToolInfo(tool_call) ==
    [tool_name |-> tool_call.name, args |-> tool_call.args,
     id |-> tool_call.id, type |-> "tool_call"]

ToolResultEntry(msg) ==
    [tool_name |-> msg.name, type |-> "tool_result",
     result_length |-> msg.content.len, tool_call_id |-> msg.tool_call_id]

\* tc['result_length'] = ...; tc['result_preview'] = ...
WithResult(tc, msg) ==
    [k \in DOMAIN tc \cup {"result_length", "result_preview"} |->
        IF k = "result_length" THEN msg.content.len
        ELSE IF k = "result_preview" THEN Prefix200(msg.content)
        ELSE tc[k]]

IsCallWithId(entry, id) == entry.type = "tool_call" /\ entry.id = id

\* The body of the loop over messages, for one message.
\* The loop body with every result appended as its own record.
ExtractOneNeverMerges(tool_calls_list, msg) ==
    LET withCalls ==
            IF msg.tool_calls # <<>>
            THEN tool_calls_list \o
                 [i \in 1..Len(msg.tool_calls) |-> ToolInfo(msg.tool_calls[i])]
            ELSE tool_calls_list
    IN  IF msg.type # "tool" THEN withCalls
        ELSE Append(withCalls, ToolResultEntry(msg))

\* The loop body without the for loop's else clause.
ExtractOneDropsUnmatched(tool_calls_list, msg) ==
    LET withCalls ==
            IF msg.tool_calls # <<>>
            THEN tool_calls_list \o
                 [i \in 1..Len(msg.tool_calls) |-> ToolInfo(msg.tool_calls[i])]
            ELSE tool_calls_list
        hits == { i \in 1..Len(withCalls) :
                     IsCallWithId(withCalls[i], msg.tool_call_id) }
        first == CHOOSE i \in hits : \A j \in hits : i <= j
    IN  IF msg.type # "tool" THEN withCalls
        ELSE IF hits # {}
             THEN [withCalls EXCEPT ![first] = WithResult(@, msg)]
             ELSE withCalls

ExtractOne(tool_calls_list, msg) ==
    LET withCalls ==
            IF msg.tool_calls # <<>>
            THEN tool_calls_list \o
                 [i \in 1..Len(msg.tool_calls) |-> ToolInfo(msg.tool_calls[i])]
            ELSE tool_calls_list
        hits == { i \in 1..Len(withCalls) :
                     IsCallWithId(withCalls[i], msg.tool_call_id) }
        first == CHOOSE i \in hits : \A j \in hits : i <= j
    IN  IF msg.type # "tool" THEN withCalls
        ELSE IF hits # {}
             THEN [withCalls EXCEPT ![first] = WithResult(@, msg)]
             ELSE Append(withCalls, ToolResultEntry(msg))

RECURSIVE ExtractFrom(_, _)
ExtractFrom(tool_calls_list, msgs) ==
    IF msgs = <<>> THEN tool_calls_list
    ELSE ExtractFrom(ExtractOne(tool_calls_list, Head(msgs)), Tail(msgs))

\* _extract_tool_calls
ExtractToolCalls(messages) == ExtractFrom(<<>>, messages)

\* agent_response[:200] + "..." if len(agent_response) > 200 else agent_response
StoredResponse(agent_response) ==
    IF agent_response.len > 200
    THEN TextConcat(Prefix200(agent_response), Text(<<"...">>, 3))
    ELSE agent_response

MessageEntry(user_message, agent_response, messages, tool_calls_count, t) ==
    [timestamp |-> t,
     user_message |-> user_message,
     agent_response |-> StoredResponse(agent_response),
     tool_calls_count |-> tool_calls_count,
     tool_calls |-> ExtractToolCalls(messages),
     total_messages_in_conversation |-> Len(messages)]

\* Mutant: a run that produced no transcript is not recorded.
LogMessageSkipsEmpty(ss, session_id, user_message, agent_response, messages, tool_calls_count, t) ==
    LET ss1 == IF session_id \in DOMAIN ss THEN ss
               ELSE CreateSession(ss, session_id, t)
    IN  IF messages = <<>> THEN ss1
        ELSE [ss1 EXCEPT ![session_id].messages =
                Append(@, MessageEntry(user_message, agent_response, messages,
                                       tool_calls_count, t))]

\* log_message, up to the append (lines 62-80): the session table after it.
LogMessage(ss, session_id, user_message, agent_response, messages, tool_calls_count, t) ==
    LET ss1 == IF session_id \in DOMAIN ss THEN ss
               ELSE CreateSession(ss, session_id, t)
    IN  [ss1 EXCEPT ![session_id].messages =
            Append(@, MessageEntry(user_message, agent_response, messages,
                                   tool_calls_count, t))]

\* _save_session that leaves a file that exists as it is.
SaveSessionNoOverwrite(fs, ss, session_id, t) ==
    IF session_id \notin DOMAIN ss \/ <<session_id, t>> \in DOMAIN fs THEN fs
    ELSE [f \in DOMAIN fs \cup {<<session_id, t>>} |->
            IF f = <<session_id, t>> THEN ss[session_id] ELSE fs[f]]

\* _save_session: the file named by the session id and the second of the
\* write holds the session's record.
SaveSession(fs, ss, session_id, t) ==
    IF session_id \notin DOMAIN ss THEN fs
    ELSE [f \in DOMAIN fs \cup {<<session_id, t>>} |->
            IF f = <<session_id, t>> THEN ss[session_id] ELSE fs[f]]

(***************************************************************************)
(* run_query (agent/agent_config.py 109-151).                              *)
(***************************************************************************)
\* The last message with non-empty content, scanning from the end.
RECURSIVE LastContent(_)
LastContent(messages) ==
    IF messages = <<>> THEN EmptyText
    ELSE IF messages[Len(messages)].content.len > 0
         THEN messages[Len(messages)].content
         ELSE LastContent(SubSeq(messages, 1, Len(messages) - 1))

\* sum(1 for msg in messages if hasattr(msg, 'tool_calls') and msg.tool_calls)
RECURSIVE CountCallMessages(_)
CountCallMessages(messages) ==
    IF messages = <<>> THEN 0
    ELSE (IF Head(messages).tool_calls # <<>> THEN 1 ELSE 0)
         + CountCallMessages(Tail(messages))

\* The return of the try block.
RunQueryResult(messages) ==
    [output |-> LastContent(messages),
     messages |-> messages,
     tool_calls |-> CountCallMessages(messages)]

\* The return of the except clause.
RunQueryExcept(e) ==
    [output |-> TextConcat(Text(<<"Error executing query: ">>, 23), e),
     messages |-> <<>>,
     tool_calls |-> 0,
     error |-> e]

\* str(e) of the error _save_session raises when the file cannot be written
SaveErrorText == Text(<<"[Errno 28] No space left on device">>, 35)

NoResult == [output |-> EmptyText, messages |-> <<>>, tool_calls |-> 0]
NoResponse == [status |-> 0, reply |-> EmptyText]
Running == [status |-> "running", exc |-> EmptyText]

(***************************************************************************)
(* The chat endpoint (routes/chat.py 48-104) and the agent loop it runs.   *)
(***************************************************************************)
\* Lines 50-74: the session id, the session's creation, the call of
\* run_query, which calls agent.invoke with the new HumanMessage.
ChatStart ==
    /\ chatPc \in {"idle", "done"}
    /\ requestsDone < MaxRequests
    /\ \E conversation_id \in ConversationIds \cup {NoConversation},
          message \in UserMessages :
          LET session_id == IF conversation_id = NoConversation
                            THEN <<"uuid", uuidCount + 1>>
                            ELSE conversation_id
          IN  /\ sessionId' = session_id
              /\ uuidCount' = IF conversation_id = NoConversation
                              THEN uuidCount + 1 ELSE uuidCount
              /\ sessions' = IF session_id \in DOMAIN sessions THEN sessions
                             ELSE CreateSession(sessions, session_id, now)
              /\ lenBefore' = IF session_id \in DOMAIN sessions
                              THEN Len(sessions[session_id].messages) ELSE 0
              /\ userMessage' = message
              /\ transcript' = <<HumanMessage(message)>>
    /\ requestsDone' = requestsDone + 1
    /\ chatPc' = "decide"
    /\ step' = 0
    /\ invoke' = Running
    /\ exhausted' = FALSE
    /\ toolCallsRun' = 0
    /\ result' = NoResult
    /\ response' = NoResponse
    /\ saveFailed' = FALSE
    /\ UNCHANGED <<files, now>>

\* The tool calls of one decision: n calls with fresh ids; the k-th call of
\* the transcript names the tools in turn.
NewCalls(msgs, n) ==
    [j \in 1..n |->
        ToolCall(CountToolCalls(msgs) + j,
                 agent.tools[((CountToolCalls(msgs) + j - 1) % Len(agent.tools)) + 1])]

\* The numbers of tool calls the next decision of a run can carry: any
\* number up to MaxCallsPerStep at the first decision, and afterwards the
\* number of the run's previous decision.
RECURSIVE LastCallCount(_)
LastCallCount(msgs) ==
    IF msgs = <<>> THEN 0
    ELSE IF msgs[Len(msgs)].tool_calls # <<>>
         THEN Len(msgs[Len(msgs)].tool_calls)
         ELSE LastCallCount(SubSeq(msgs, 1, Len(msgs) - 1))

CallCounts(msgs) ==
    IF LastCallCount(msgs) = 0 THEN 1..MaxCallsPerStep
    ELSE {LastCallCount(msgs)}

\* agent.invoke ends: by returning its state or by raising.
InvokeReturns == invoke' = [status |-> "returned", exc |-> EmptyText]
InvokeRaises(e) == invoke' = [status |-> "raised", exc |-> e]

\* The graph has no step left for the next node: GraphRecursionError.
AgentOutOfSteps ==
    /\ chatPc \in {"decide", "tools"}
    /\ step >= RecursionLimit
    /\ InvokeRaises(RecursionErrorText)
    /\ exhausted' = TRUE
    /\ chatPc' = "invoked"
    /\ UNCHANGED <<loggerVars, uuidCount, requestsDone, sessionId, userMessage,
                   transcript, step, toolCallsRun, result, response,
                   saveFailed, lenBefore>>

\* The decision step raises (the upstream call is unavailable).
AgentDecideRaises ==
    /\ chatPc = "decide"
    /\ step < RecursionLimit
    /\ \E e \in UpstreamErrors : InvokeRaises(e)
    /\ step' = step + 1
    /\ chatPc' = "invoked"
    /\ UNCHANGED <<loggerVars, uuidCount, requestsDone, sessionId, userMessage,
                   transcript, exhausted, toolCallsRun, result, response,
                   saveFailed, lenBefore>>

\* The decision step emits a final answer: the loop ends.
AgentDecideFinal ==
    /\ chatPc = "decide"
    /\ step < RecursionLimit
    /\ \E answer \in AnswerTexts :
          transcript' = Append(transcript, AIMessage(answer, <<>>))
    /\ InvokeReturns
    /\ step' = step + 1
    /\ chatPc' = "invoked"
    /\ UNCHANGED <<loggerVars, uuidCount, requestsDone, sessionId, userMessage,
                   exhausted, toolCallsRun, result, response, saveFailed,
                   lenBefore>>

\* The decision step emits one or more tool calls: the tools node is next.
AgentDecideCalls ==
    /\ chatPc = "decide"
    /\ step < RecursionLimit
    /\ \E n \in CallCounts(transcript) :
          transcript' =
              Append(transcript, AIMessage(EmptyText, NewCalls(transcript, n)))
    /\ step' = step + 1
    /\ chatPc' = "tools"
    /\ UNCHANGED <<loggerVars, uuidCount, requestsDone, sessionId, userMessage,
                   invoke, exhausted, toolCallsRun, result, response,
                   saveFailed, lenBefore>>

\* The decision step asks for tools when, after this step, fewer than two
\* steps remain (the tools node could run, the next decision could not):
\* the prebuilt agent answers in its place that it needs more steps, and
\* ends.  Releases of the library without this rule run the tools and then
\* raise (AgentDecideCalls, AgentTools, AgentOutOfSteps).
AgentDecideForcedFinal ==
    /\ chatPc = "decide"
    /\ step < RecursionLimit
    /\ RecursionLimit - (step + 1) < 2
    /\ transcript' = Append(transcript, AIMessage(NeedMoreStepsText, <<>>))
    /\ InvokeReturns
    /\ exhausted' = TRUE
    /\ step' = step + 1
    /\ chatPc' = "invoked"
    /\ UNCHANGED <<loggerVars, uuidCount, requestsDone, sessionId, userMessage,
                   toolCallsRun, result, response, saveFailed, lenBefore>>

\* The tools node runs every call of the last AIMessage, in order, and
\* appends one ToolMessage per call.
AgentTools ==
    /\ chatPc = "tools"
    /\ step < RecursionLimit
    /\ LET calls == transcript[Len(transcript)].tool_calls
       IN  /\ transcript' =
                 transcript \o
                 [j \in 1..Len(calls) |->
                     ToolMessage(ToolResultText, calls[j].name, calls[j].id)]
           /\ toolCallsRun' = toolCallsRun + Len(calls)
    /\ step' = step + 1
    /\ chatPc' = "decide"
    /\ UNCHANGED <<loggerVars, uuidCount, requestsDone, sessionId, userMessage,
                   invoke, exhausted, result, response, saveFailed, lenBefore>>

\* run_query returns: the try block's dict, or the except clause's.
RunQueryReturn ==
    /\ chatPc = "invoked"
    /\ result' = IF invoke.status = "raised"
                 THEN RunQueryExcept(invoke.exc)
                 ELSE RunQueryResult(transcript)
    /\ chatPc' = "log"
    /\ UNCHANGED <<loggerVars, uuidCount, requestsDone, sessionId, userMessage,
                   transcript, step, invoke, exhausted, toolCallsRun, response,
                   saveFailed, lenBefore>>

\* Lines 76-104: log_message (append, then _save_session), then the reply;
\* when the write raises, the except clause answers 500.
ChatLogAndReply ==
    /\ chatPc = "log"
    /\ sessions' = LogMessage(sessions, sessionId, userMessage, result.output,
                              result.messages, result.tool_calls, now)
    /\ \/ /\ files' = SaveSession(files, sessions', sessionId, now)
          /\ saveFailed' = FALSE
          /\ response' = [status |-> 200, reply |-> result.output]
       \/ /\ files' = files
          /\ saveFailed' = TRUE
          /\ response' =
                [status |-> 500, reply |-> Text(<<"Internal server error">>, 21)]
    /\ chatPc' = "done"
    /\ UNCHANGED <<now, uuidCount, requestsDone, sessionId, userMessage,
                   transcript, step, invoke, exhausted, toolCallsRun, result,
                   lenBefore>>

ChatInit ==
    /\ sessions = <<>>
    /\ files = <<>>
    /\ now = 0
    /\ uuidCount = 0
    /\ requestsDone = 0
    /\ chatPc = "idle"
    /\ sessionId = NoConversation
    /\ userMessage = EmptyText
    /\ transcript = <<>>
    /\ step = 0
    /\ invoke = Running
    /\ exhausted = FALSE
    /\ toolCallsRun = 0
    /\ result = NoResult
    /\ response = NoResponse
    /\ saveFailed = FALSE
    /\ lenBefore = 0

(***************************************************************************)
(* The semantic search tool (tools/vector_search_tool.py) over the index   *)
(* vectordb/create_vectordb.py builds.                                     *)
(***************************************************************************)
\* Documents the index holds at most.
MaxDocs == 4
\* Results a caller asks for when it sets a filter (k of the filtered
\* searches).
MaxAskedK == 2

\* Python's None: metadata.get of an absent key, the empty module-level
\* cache.
None == "None"
\* A distance the index reports, and the None that stands for a score
\* not asked for.
Score(d) == <<"float", d>>
NoScore == <<"None", 0>>
\* Python truthiness of a metadata value: None and '' are false.
Truthy(v) == v # None /\ v # ""

MinOf(a, b) == IF a < b THEN a ELSE b

\* A query text: lead and trail count the whitespace characters at its
\* ends, core the characters between them (the first and the last of
\* these are not whitespace).
QueryText(lead, core, trail) == [lead |-> lead, core |-> core, trail |-> trail]
\* len(v)
QueryLen(v) == v.lead + v.core + v.trail
\* v.strip()
StripQuery(v) == QueryText(0, v.core, 0)

\* v.lower() on the words callers send for the two type fields.
LowerWord(w) ==
    CASE w = "BLOG" -> "blog"
      [] w = "Policy" -> "policy"
      [] w = "Dishwasher" -> "dishwasher"
      [] OTHER -> w

\* k as it arrives: an integer, or a value pydantic cannot read as one.
IntK(n) == [isInt |-> TRUE, val |-> n]
NotIntK == [isInt |-> FALSE, val |-> 0]

\* The limits the validators of VectorSearchInput name.
MinQueryLen == 3
MaxQueryLen == 500
MinK == 1
MaxK == 20
\* search_k = min(k * 3, 50)
OverFetchFactor == 3
MaxSearchK == 50

\* A field validator's outcome: the value it returns or the message of
\* the ValueError it raises.
Valid(v) == [ok |-> TRUE, value |-> v, msg |-> ""]
Invalid(v, m) == [ok |-> FALSE, value |-> v, msg |-> m]

\* validate_query (lines 120-133).
ValidateQuery(v) ==
    IF QueryLen(v) = 0
    THEN Invalid(v, "query must be a non-empty string")
    ELSE IF QueryLen(StripQuery(v)) < MinQueryLen
    THEN Invalid(v, "query must be at least 3 characters long")
    ELSE IF QueryLen(StripQuery(v)) > MaxQueryLen
    THEN Invalid(v, "query exceeds maximum length of 500 characters")
    ELSE Valid(StripQuery(v))

\* validate_k without its upper limit.
ValidateKNoUpperLimit(v) ==
    IF ~v.isInt
    THEN Invalid(v, "Input should be a valid integer")
    ELSE IF v.val < MinK
    THEN Invalid(v, "k must be an integer between 1 and 20")
    ELSE Valid(v.val)

\* The field k: int, then validate_k (lines 135-141).
ValidateK(v) ==
    IF ~v.isInt
    THEN Invalid(v, "Input should be a valid integer")
    ELSE IF v.val < MinK \/ v.val > MaxK
    THEN Invalid(v, "k must be an integer between 1 and 20")
    ELSE Valid(v.val)

DocumentTypes == {"all", "blog", "repair", "policy"}
ApplianceTypes == {"all", "refrigerator", "dishwasher"}

\* validate_document_type (lines 143-151).
ValidateDocumentType(v) ==
    IF LowerWord(v) \notin DocumentTypes
    THEN Invalid(v, "document_type must be one of: all, blog, repair, policy")
    ELSE Valid(LowerWord(v))

\* validate_appliance_type (lines 153-161).
ValidateApplianceType(v) ==
    IF LowerWord(v) \notin ApplianceTypes
    THEN Invalid(v, "appliance_type must be one of: all, refrigerator, dishwasher")
    ELSE Valid(LowerWord(v))

\* The messages of the fields that failed, in the order of the fields.
RECURSIVE FailedMessages(_)
FailedMessages(outcomes) ==
    IF outcomes = <<>> THEN <<>>
    ELSE (IF Head(outcomes).ok THEN <<>> ELSE <<Head(outcomes).msg>>)
         \o FailedMessages(Tail(outcomes))

\* The schema applied to the input of invoke: the errors of the fields
\* and, when there is none, the arguments the function is called with.
VectorSearchInput(input) ==
    LET q == ValidateQuery(input.query)
        k == ValidateK(input.k)
        d == ValidateDocumentType(input.document_type)
        a == ValidateApplianceType(input.appliance_type)
    IN  [errors |-> FailedMessages(<<q, k, d, a>>),
         args |-> [query |-> q.value,
                   k |-> k.value,
                   document_type |-> d.value,
                   appliance_type |-> a.value,
                   include_score |-> input.include_score]]

\* The inputs of invoke: the searches with filters, and the inputs that
\* leave one range (or two) of an unfiltered search.
BaseInput ==
    [query |-> QueryText(0, 3, 0),
     k |-> IntK(5),
     document_type |-> "all",
     appliance_type |-> "all",
     include_score |-> FALSE]

QueryInputs ==
    { QueryText(p, c, p) : p \in {0, 1},
                           c \in {0, 2, MinQueryLen, MaxQueryLen, MaxQueryLen + 1} }

KInputs == { IntK(n) : n \in {MinK - 1, MinK, MaxK, MaxK + 1} } \cup { NotIntK }

VecInputs ==
    { [BaseInput EXCEPT !.k = IntK(n), !.document_type = d,
                        !.appliance_type = a, !.include_score = s] :
          n \in 1..MaxAskedK,
          d \in {"all", "blog", "repair", "policy", "BLOG"},
          a \in {"all", "refrigerator", "dishwasher"},
          s \in BOOLEAN }
    \cup { [BaseInput EXCEPT !.query = q] : q \in QueryInputs }
    \cup { [BaseInput EXCEPT !.k = n] : n \in KInputs }
    \cup { [BaseInput EXCEPT !.document_type = d] : d \in {"Policy", "invalid", ""} }
    \cup { [BaseInput EXCEPT !.appliance_type = a] : a \in {"Dishwasher", "oven", ""} }
    \cup { [BaseInput EXCEPT !.query = QueryText(0, 2, 0), !.k = IntK(0)] }

\* The metadata create_vectordb.py attaches to a chunk: blogs and repair
\* guides carry the appliance_type of their source ('' when the source
\* has none), policies carry no appliance_type.
BlogMetadata(appliance) == [document_type |-> "blog", appliance_type |-> appliance]
RepairMetadata(appliance) == [document_type |-> "repair", appliance_type |-> appliance]
PolicyMetadata == [document_type |-> "policy", policy_type |-> "returns"]

\* The kinds of chunks an index is made of here.
DocMetadata ==
    { BlogMetadata("refrigerator"), RepairMetadata(""), PolicyMetadata }

\* The index: its documents in the order of their similarity to the query.
IndexContents == UNION { [1..n -> DocMetadata] : n \in 0..MaxDocs }

\* metadata.get(key)
Get(metadata, key) == IF key \in DOMAIN metadata THEN metadata[key] ELSE None

\* The i-th nearest document; its page_content is its place in the index.
Document(i, metadata) == [page_content |-> i, metadata |-> metadata]

\* similarity_search_with_score(query, k): the k nearest documents with
\* their distances.
SimilaritySearchWithScore(index, k) ==
    [i \in 1..MinOf(k, Len(index)) |-> <<Document(i, index[i]), Score(i)>>]

\* similarity_search(query, k), converted to tuples (lines 334-336).
SimilaritySearch(index, k) ==
    [i \in 1..MinOf(k, Len(index)) |-> <<Document(i, index[i]), NoScore>>]

\* The test of apply_filters' loop body (lines 213-229): whether a result
\* is appended.
PassesFilters(doc, document_type, appliance_type) ==
    /\ document_type # "all" =>
          Get(doc.metadata, "document_type") = document_type
    /\ appliance_type # "all" =>
          ~(/\ Truthy(Get(doc.metadata, "appliance_type"))
            /\ Get(doc.metadata, "appliance_type") # appliance_type)

\* apply_filters without the test of document_type.
RECURSIVE ApplyFiltersApplianceOnly(_, _, _)
ApplyFiltersApplianceOnly(results, document_type, appliance_type) ==
    IF results = <<>> THEN <<>>
    ELSE (IF PassesFilters(Head(results)[1], "all", appliance_type)
          THEN <<Head(results)>> ELSE <<>>)
         \o ApplyFiltersApplianceOnly(Tail(results), document_type, appliance_type)

\* apply_filters (lines 196-231).
RECURSIVE ApplyFilters(_, _, _)
ApplyFilters(results, document_type, appliance_type) ==
    IF results = <<>> THEN <<>>
    ELSE (IF PassesFilters(Head(results)[1], document_type, appliance_type)
          THEN <<Head(results)>> ELSE <<>>)
         \o ApplyFilters(Tail(results), document_type, appliance_type)

\* The fields format_result adds for the document's type.
TypeFields(doc_type) ==
    CASE doc_type = "blog" -> {"title", "url", "author", "excerpt"}
      [] doc_type = "repair" -> {"part_name", "category", "part_url", "symptom_url"}
      [] doc_type = "policy" -> {"policy_type", "title", "url"}
      [] OTHER -> {}

\* format_result (lines 234-284); chunk_index, total_chunks and the
\* type's fields are copied from the metadata and are kept as field names.
FormatResult(doc, rank, score) ==
    [f \in {"rank", "content", "document_type", "appliance_type", "fields"}
           \cup (IF score # NoScore THEN {"relevance_score"} ELSE {}) |->
        CASE f = "rank" -> rank
          [] f = "content" -> doc.page_content
          [] f = "document_type" -> Get(doc.metadata, "document_type")
          [] f = "appliance_type" -> Get(doc.metadata, "appliance_type")
          [] f = "fields" -> {"chunk_index", "total_chunks"}
                             \cup TypeFields(Get(doc.metadata, "document_type"))
          [] f = "relevance_score" -> score]

\* The loop of lines 345-350 with enumerate counting from 0.
FormatResultsFromZero(filtered_results, include_score) ==
    [i \in 1..Len(filtered_results) |->
        FormatResult(filtered_results[i][1], i - 1,
                     IF include_score THEN filtered_results[i][2] ELSE NoScore)]

\* The loop of lines 345-350: enumerate(filtered_results, 1).
FormatResults(filtered_results, include_score) ==
    [i \in 1..Len(filtered_results) |->
        FormatResult(filtered_results[i][1], i,
                     IF include_score THEN filtered_results[i][2] ELSE NoScore)]

\* search_k (line 329).
SearchK(k) == MinOf(k * OverFetchFactor, MaxSearchK)

\* Lines 329-352 once the store is there and the search does not raise.
SearchAndFormat(index, args) ==
    LET results == IF args.include_score
                   THEN SimilaritySearchWithScore(index, SearchK(args.k))
                   ELSE SimilaritySearch(index, SearchK(args.k))
        filtered_results ==
            ApplyFilters(results, args.document_type, args.appliance_type)
        limited == SubSeq(filtered_results, 1, MinOf(args.k, Len(filtered_results)))
    IN  FormatResults(limited, args.include_score)

\* Exceptions: the class and str(e).
Exc(class, msg) == [class |-> class, msg |-> msg]
\* What makes FAISS.load_local or the embeddings model fail.
LoadErrors == { Exc("RuntimeError", Text(<<"could not open index.faiss">>, 26)) }
\* What makes the similarity search fail: the library's own errors.
RetrievalErrors ==
    { Exc("RuntimeError", Text(<<"CUDA out of memory">>, 18)),
      Exc("ValueError", Text(<<"Could not find document for id 3">>, 32)) }

\* The exception get_vector_store raises in place of e (lines 190-191).
FailedToLoad(e) ==
    Exc("Exception", TextConcat(Text(<<"Failed to load vector database: ">>, 32), e.msg))

\* "vector database" in error_msg.lower(), on the parts messages are made of.
MentionsVectorDatabase(msg) ==
    \E i \in 1..Len(msg.parts) : msg.parts[i] = "Failed to load vector database: "

\* The two except clauses of vector_search_tool (lines 354-370).
VecExceptResult(e, query) ==
    IF e.class = "ValueError"
    THEN <<[error |-> e.msg, error_type |-> "ValidationError", query |-> query]>>
    ELSE <<[error |-> TextConcat(Text(<<"Search failed: ">>, 15), e.msg),
            error_type |-> IF MentionsVectorDatabase(e.msg)
                           THEN "VectorStoreError" ELSE "SearchError",
            query |-> query]>>

VARIABLES
    vecIndex,           \* the documents of the index on disk, nearest first
    vectorStoreCache,   \* _vector_store_cache: None or the loaded store
    vecPc,              \* "idle", "load", "search", "done"
    vecInput,           \* the input callers invoke the tool with
    vecArgs,            \* the arguments the schema hands to the function
    vecReturn,          \* what invoke returned
    vecRaised,          \* what invoke raised
    vecLoaded,          \* this invoke loaded the index from disk
    vecSearched,        \* this invoke ran a similarity search
    vecFault            \* what failed in this invoke

vecVars ==
    <<vecIndex, vectorStoreCache, vecPc, vecInput, vecArgs, vecReturn,
      vecRaised, vecLoaded, vecSearched, vecFault>>

NoRaise == [class |-> "none", errors |-> <<>>]
\* pydantic's ValidationError with the messages of the failed fields.
SchemaError(errors) == [class |-> "pydantic.ValidationError", errors |-> errors]

\* vector_search_tool.invoke(input): the tool applies args_schema to the
\* input before it calls the function; a violation is raised by invoke
\* (the function's try block is not entered).
VecInvoke ==
    /\ vecPc \in {"idle", "done"}
    /\ LET parsed == VectorSearchInput(vecInput)
       IN  IF parsed.errors # <<>>
           THEN /\ vecRaised' = SchemaError(parsed.errors)
                /\ vecFault' = "schema"
                /\ vecArgs' = BaseInput
                /\ vecPc' = "done"
           ELSE /\ vecRaised' = NoRaise
                /\ vecFault' = "none"
                /\ vecArgs' = parsed.args
                /\ vecPc' = "load"
    /\ vecReturn' = <<>>
    /\ vecLoaded' = FALSE
    /\ vecSearched' = FALSE
    /\ UNCHANGED <<vecIndex, vectorStoreCache, vecInput>>

\* get_vector_store (lines 164-193) with the cache filled.
GetVectorStoreCached ==
    /\ vecPc = "load"
    /\ vectorStoreCache # None
    /\ vecPc' = "search"
    /\ UNCHANGED <<vecIndex, vectorStoreCache, vecInput, vecArgs, vecReturn,
                   vecRaised, vecLoaded, vecSearched, vecFault>>

\* get_vector_store with the cache empty: the index is loaded and cached.
GetVectorStoreLoads ==
    /\ vecPc = "load"
    /\ vectorStoreCache = None
    /\ vectorStoreCache' = "FAISS"
    /\ vecLoaded' = TRUE
    /\ vecPc' = "search"
    /\ UNCHANGED <<vecIndex, vecInput, vecArgs, vecReturn, vecRaised,
                   vecSearched, vecFault>>

\* get_vector_store with the cache empty and a load that fails: the
\* exception reaches the except clauses of vector_search_tool.
GetVectorStoreFails ==
    /\ vecPc = "load"
    /\ vectorStoreCache = None
    /\ \E e \in LoadErrors :
          vecReturn' = VecExceptResult(FailedToLoad(e), vecArgs.query)
    /\ vecFault' = "load"
    /\ vecPc' = "done"
    /\ UNCHANGED <<vecIndex, vectorStoreCache, vecInput, vecArgs, vecRaised,
                   vecLoaded, vecSearched>>

\* Lines 329-352: search, filter, limit, format, return.
VecSearchReturns ==
    /\ vecPc = "search"
    /\ vecReturn' = SearchAndFormat(vecIndex, vecArgs)
    /\ vecSearched' = TRUE
    /\ vecPc' = "done"
    /\ UNCHANGED <<vecIndex, vectorStoreCache, vecInput, vecArgs, vecRaised,
                   vecLoaded, vecFault>>

\* The similarity search raises: the except clauses return the record.
VecSearchFails ==
    /\ vecPc = "search"
    /\ \E e \in RetrievalErrors :
          vecReturn' = VecExceptResult(e, vecArgs.query)
    /\ vecSearched' = TRUE
    /\ vecFault' = "retrieval"
    /\ vecPc' = "done"
    /\ UNCHANGED <<vecIndex, vectorStoreCache, vecInput, vecArgs, vecRaised,
                   vecLoaded>>

VecIdle ==
    /\ vectorStoreCache = None
    /\ vecPc = "idle"
    /\ vecArgs = BaseInput
    /\ vecReturn = <<>>
    /\ vecRaised = NoRaise
    /\ vecLoaded = FALSE
    /\ vecSearched = FALSE
    /\ vecFault = "none"

\* A behaviour has one index and one input; the input is invoked again
\* after a call has ended.
VecInit ==
    /\ vecIndex \in IndexContents
    /\ vecInput \in VecInputs
    /\ VecIdle

(***************************************************************************)
(* _extract_tool_calls on transcripts of any order (services/              *)
(* tool_call_logger.py 85-133).                                            *)
(***************************************************************************)
\* Messages of a transcript handed to _extract_tool_calls.
MaxTranscript == 4

\* The messages transcripts are made of: assistant messages that call
\* tool 1, tool 2 or both, and tool messages for the ids 1 and 2 (two of
\* different lengths for id 1).
TranscriptMessages ==
    { AIMessage(EmptyText, <<ToolCall(1, ToolNames[1])>>),
      AIMessage(EmptyText, <<ToolCall(2, ToolNames[2])>>),
      AIMessage(EmptyText, <<ToolCall(1, ToolNames[1]), ToolCall(2, ToolNames[2])>>),
      ToolMessage(ToolResultText, ToolNames[1], 1),
      ToolMessage(Text(<<"[]">>, 2), ToolNames[1], 1),
      ToolMessage(Text(<<"[{'rank': 1, ...}]">>, 120), ToolNames[2], 2) }

Transcripts == UNION { [1..n -> TranscriptMessages] : n \in 0..MaxTranscript }

VARIABLES
    exMessages,     \* the messages argument
    exPc,           \* "call", "returned"
    exResult        \* the list returned

exVars == <<exMessages, exPc, exResult>>

\* The call of _extract_tool_calls(messages) up to its return.
ExtractReturn ==
    /\ exPc = "call"
    /\ exResult' = ExtractToolCalls(exMessages)
    /\ exPc' = "returned"
    /\ UNCHANGED exMessages

ExtractInit ==
    /\ exMessages \in Transcripts
    /\ exPc = "call"
    /\ exResult = <<>>

\* No call of _extract_tool_calls on its own is under way.
ExtractOff ==
    /\ exMessages = <<>>
    /\ exPc = "returned"
    /\ exResult = <<>>

(***************************************************************************)
(* The logger under the calls the routes make of it (services/             *)
(* tool_call_logger.py; routes/chat.py 55-59, 84-90, 116-117).             *)
(***************************************************************************)
\* Calls of the logger's methods in one behaviour.
MaxLogCalls == 4
\* Seconds the clock advances in one behaviour.
MaxClock == 1

\* The session ids the calls name.
LogSessionIds == ConversationIds \cup { <<"uuid", 1>> }

\* The user message logged by the n-th call: n tells them apart.
Question(n) == Text(<<"question">>, 10 + n)

\* The result of run_query the endpoint logs with the n-th call: a run
\* whose decision step raised when n is even; a run of two decisions with
\* one tool call each and a final answer when n is 1, 5, ...; a run of one
\* decision with two tool calls and a final answer for the other odd n.
LoggedRun(n) ==
    LET ai == AIMessage(EmptyText, NewCalls(<<>>, 2))
        first == AIMessage(EmptyText, NewCalls(<<>>, 1))
        second == AIMessage(EmptyText, NewCalls(<<HumanMessage(Question(n)), first>>, 1))
        answer == CHOOSE a \in AnswerTexts : TRUE
        e == CHOOSE x \in UpstreamErrors : TRUE
    IN  IF n % 2 = 0
        THEN RunQueryExcept(e)
        ELSE IF n % 4 = 1
        THEN RunQueryResult(<<HumanMessage(Question(n)), first,
                              ToolMessage(ToolResultText, first.tool_calls[1].name,
                                          first.tool_calls[1].id),
                              second,
                              ToolMessage(ToolResultText, second.tool_calls[1].name,
                                          second.tool_calls[1].id),
                              AIMessage(answer, <<>>)>>)
        ELSE RunQueryResult(<<HumanMessage(Question(n)), ai,
                              ToolMessage(ToolResultText, ai.tool_calls[1].name, 1),
                              ToolMessage(ToolResultText, ai.tool_calls[2].name, 2),
                              AIMessage(answer, <<>>)>>)

\* The runs of the calls of one behaviour, by call number.
LoggedRuns == [n \in 1..MaxLogCalls |-> LoggedRun(n)]

\* sum(msg["tool_calls_count"] for msg in messages)
RECURSIVE SumToolCallsCount(_)
SumToolCallsCount(messages) ==
    IF messages = <<>> THEN 0
    ELSE Head(messages).tool_calls_count + SumToolCallsCount(Tail(messages))

\* The histogram of lines 162-167: the records of every exchange's
\* tool_calls list, counted by tool_name.
ToolUsage(messages) ==
    LET uses == UNION { { <<i, j>> : j \in 1..Len(messages[i].tool_calls) } :
                        i \in 1..Len(messages) }
        nameOf(u) == messages[u[1]].tool_calls[u[2]].tool_name
    IN  [name \in { nameOf(u) : u \in uses } |->
            Cardinality({ u \in uses : nameOf(u) = name })]

\* total_tool_calls / total_messages, kept as the two numbers.
Ratio(n, d) == [num |-> n, den |-> d]

\* Mutant: total_tool_calls counts the exchanges that used a tool, not the
\* tool calls.
GetSessionSummaryCountsExchanges(ss, session_id) ==
    IF session_id \notin DOMAIN ss THEN <<>>
    ELSE LET messages == ss[session_id].messages
             used == Cardinality({ i \in 1..Len(messages) :
                                     messages[i].tool_calls_count > 0 })
         IN  [session_id |-> session_id,
              total_messages |-> Len(messages),
              total_tool_calls |-> used,
              avg_tool_calls_per_message |->
                  IF Len(messages) > 0
                  THEN Ratio(used, Len(messages))
                  ELSE Ratio(0, 1),
              tool_usage |-> ToolUsage(messages),
              created_at |-> ss[session_id].created_at]

\* get_session_summary (lines 150-176).
GetSessionSummary(ss, session_id) ==
    IF session_id \notin DOMAIN ss THEN <<>>
    ELSE LET messages == ss[session_id].messages
         IN  [session_id |-> session_id,
              total_messages |-> Len(messages),
              total_tool_calls |-> SumToolCallsCount(messages),
              avg_tool_calls_per_message |->
                  IF Len(messages) > 0
                  THEN Ratio(SumToolCallsCount(messages), Len(messages))
                  ELSE Ratio(0, 1),
              tool_usage |-> ToolUsage(messages),
              created_at |-> ss[session_id].created_at]

\* end_session up to the write (lines 180-183): the session with its
\* summary and ended_at.
WithSummary(ss, session_id, t) ==
    [id \in DOMAIN ss |->
        IF id # session_id THEN ss[id]
        ELSE [k \in DOMAIN ss[id] \cup {"summary", "ended_at"} |->
                IF k = "summary" THEN GetSessionSummary(ss, session_id)
                ELSE IF k = "ended_at" THEN t
                ELSE ss[id][k]]]

\* Mutant: end_session leaves the session in the table.
RemoveKeepsSession(ss, session_id) == ss

\* del self.sessions[session_id]
Remove(ss, session_id) == [id \in DOMAIN ss \ {session_id} |-> ss[id]]

NoFile == <<"none", 0>>

VARIABLES
    logCalls,       \* calls of the logger's methods so far
    logHistory,     \* per id: the calls of log_message on the live session
    lastWrite,      \* per id: the file written last
    logReturned,    \* per id: the last call of log_message returned
    logLast         \* the last call: method, session id, value returned

logVars == <<logCalls, logHistory, lastWrite, logReturned, logLast>>

Call(op, session_id, ret) == [op |-> op, id |-> session_id, ret |-> ret]
NoCall == Call("none", NoFile, <<>>)

\* What open(filepath, 'w') leaves when the process dies before json.dump
\* has written the document: a file that holds no record.
Truncated == [truncated |-> TRUE]

\* A second passes.
LoggerTick ==
    /\ now < MaxClock
    /\ now' = now + 1
    /\ UNCHANGED <<sessions, files, logVars>>

\* chat.py 58-59: create_session for an id the table does not hold.
LoggerCreateSession ==
    /\ logCalls < MaxLogCalls
    /\ \E session_id \in LogSessionIds :
          /\ session_id \notin DOMAIN sessions
          /\ sessions' = CreateSession(sessions, session_id, now)
          /\ logHistory' = [logHistory EXCEPT ![session_id] = <<>>]
          /\ logLast' = Call("create_session", session_id, <<>>)
    /\ logCalls' = logCalls + 1
    /\ UNCHANGED <<files, now, lastWrite, logReturned>>

\* log_message (lines 44-83) with the arguments chat.py 84-90 passes;
\* the write of _save_session succeeds.
LoggerLogMessage ==
    /\ logCalls < MaxLogCalls
    /\ \E session_id \in LogSessionIds :
       LET run == LoggedRuns[logCalls + 1]
       IN /\ sessions' = LogMessage(sessions, session_id, Question(logCalls + 1),
                                    run.output, run.messages, run.tool_calls, now)
          /\ files' = SaveSession(files, sessions', session_id, now)
          /\ logHistory' =
                [logHistory EXCEPT ![session_id] =
                    IF session_id \in DOMAIN sessions
                    THEN Append(@, logCalls + 1) ELSE <<logCalls + 1>>]
          /\ lastWrite' = [lastWrite EXCEPT ![session_id] = <<session_id, now>>]
          /\ logReturned' = [logReturned EXCEPT ![session_id] = TRUE]
          /\ logLast' = Call("log_message", session_id, <<>>)
    /\ logCalls' = logCalls + 1
    /\ UNCHANGED now

\* log_message when open or json.dump raises: the exchange is appended,
\* no file is written and the call raises.
LoggerLogMessageWriteFails ==
    /\ logCalls < MaxLogCalls
    /\ \E session_id \in LogSessionIds :
       LET run == LoggedRuns[logCalls + 1]
       IN /\ sessions' = LogMessage(sessions, session_id, Question(logCalls + 1),
                                    run.output, run.messages, run.tool_calls, now)
          /\ logHistory' =
                [logHistory EXCEPT ![session_id] =
                    IF session_id \in DOMAIN sessions
                    THEN Append(@, logCalls + 1) ELSE <<logCalls + 1>>]
          /\ logReturned' = [logReturned EXCEPT ![session_id] = FALSE]
          /\ logLast' = Call("log_message", session_id, <<"raised">>)
    /\ logCalls' = logCalls + 1
    /\ UNCHANGED <<files, now, lastWrite>>

\* end_session (lines 178-189) of a live session: summary, ended_at, the
\* final write, the removal from the table.
LoggerEndSession ==
    /\ logCalls < MaxLogCalls
    /\ \E session_id \in DOMAIN sessions :
          /\ files' = SaveSession(files, WithSummary(sessions, session_id, now),
                                  session_id, now)
          /\ sessions' = Remove(sessions, session_id)
          /\ lastWrite' = [lastWrite EXCEPT ![session_id] = <<session_id, now>>]
          /\ logHistory' = [logHistory EXCEPT ![session_id] = <<>>]
          /\ logLast' = Call("end_session", session_id, <<>>)
    /\ logCalls' = logCalls + 1
    /\ UNCHANGED <<now, logReturned>>

\* end_session when the final write raises: the session stays in the
\* table with its summary and ended_at.
LoggerEndSessionWriteFails ==
    /\ logCalls < MaxLogCalls
    /\ \E session_id \in DOMAIN sessions :
          /\ sessions' = WithSummary(sessions, session_id, now)
          /\ logLast' = Call("end_session", session_id, <<"raised">>)
    /\ logCalls' = logCalls + 1
    /\ UNCHANGED <<files, now, logHistory, lastWrite, logReturned>>

\* end_session of an id the table does not hold (line 180): the body of
\* the if is skipped.
LoggerEndSessionAbsent ==
    /\ logCalls < MaxLogCalls
    /\ \E session_id \in LogSessionIds :
          /\ session_id \notin DOMAIN sessions
          /\ logLast' = Call("end_session", session_id, <<"absent">>)
    /\ logCalls' = logCalls + 1
    /\ UNCHANGED <<sessions, files, now, logHistory, lastWrite, logReturned>>

\* get_session_summary (chat.py 133-134): a read of the table.
LoggerGetSessionSummary ==
    /\ logCalls < MaxLogCalls
    /\ \E session_id \in LogSessionIds :
          logLast' = Call("get_session_summary", session_id,
                          GetSessionSummary(sessions, session_id))
    /\ logCalls' = logCalls + 1
    /\ UNCHANGED <<sessions, files, now, logHistory, lastWrite, logReturned>>

\* The process dies inside log_message for a session whose exchanges so
\* far are on disk, and a new process starts with an empty table
\* (get_logger builds a new ToolCallLogger).  The crash comes before
\* _save_session opened the file, or after open(filepath, 'w') truncated
\* it and before json.dump finished.  The call records the exchanges the
\* session held before it.
LoggerCrashInLogMessage ==
    /\ logCalls < MaxLogCalls
    /\ \E session_id \in DOMAIN sessions :
          /\ logHistory[session_id] # <<>>
          /\ logReturned[session_id]
          /\ \/ UNCHANGED files
             \/ files' = [f \in DOMAIN files \cup {<<session_id, now>>} |->
                            IF f = <<session_id, now>> THEN Truncated
                            ELSE files[f]]
          /\ logLast' = Call("crash", session_id, sessions[session_id].messages)
    /\ sessions' = <<>>
    /\ logHistory' = [id \in LogSessionIds |-> <<>>]
    /\ logReturned' = [id \in LogSessionIds |-> FALSE]
    /\ logCalls' = logCalls + 1
    /\ UNCHANGED <<now, lastWrite>>

\* The logger after ToolCallLogger() (lines 17-29).
LoggerInit ==
    /\ logCalls = 0
    /\ logHistory = [id \in LogSessionIds |-> <<>>]
    /\ lastWrite = [id \in LogSessionIds |-> NoFile]
    /\ logReturned = [id \in LogSessionIds |-> FALSE]
    /\ logLast = NoCall

(***************************************************************************)
(* Concurrent requests.  The chat route is a plain def, which FastAPI runs *)
(* in worker threads; the logger (get_logger) and _vector_store_cache are  *)
(* module globals used without a lock.  A step is one statement of the     *)
(* source; the interpreter switches threads between statements.            *)
(***************************************************************************)
\* Requests under way at the same time.
MaxConcurrent == 3
Requests == 1..MaxConcurrent

\* Line 51: the conversation id the request names, or a uuid4 of its own.
RequestIds(r) == ConversationIds \cup { <<"uuid", r>> }

VARIABLES
    reqPc,      \* per request: "check", "create", "log", "save", "done"
    reqId       \* per request: its session_id

reqVars == <<reqPc, reqId>>

\* chat.py 58: if session_id not in logger.sessions
ReqCheck(r) ==
    /\ reqPc[r] = "check"
    /\ reqPc' = [reqPc EXCEPT ![r] = IF reqId[r] \notin DOMAIN sessions
                                      THEN "create" ELSE "log"]
    /\ UNCHANGED <<sessions, files, now, reqId>>

\* chat.py 59: logger.create_session(session_id)
ReqCreate(r) ==
    /\ reqPc[r] = "create"
    /\ sessions' = CreateSession(sessions, reqId[r], now)
    /\ reqPc' = [reqPc EXCEPT ![r] = "log"]
    /\ UNCHANGED <<files, now, reqId>>

\* chat.py 63-90 and log_message 62-80: run_query, then the exchange is
\* appended to the session's list (the id is in the table here: no request
\* removes one).
ReqLogMessage(r) ==
    /\ reqPc[r] = "log"
    /\ sessions' = LogMessage(sessions, reqId[r], Question(r), LoggedRuns[r].output,
                              LoggedRuns[r].messages, LoggedRuns[r].tool_calls, now)
    /\ reqPc' = [reqPc EXCEPT ![r] = "save"]
    /\ UNCHANGED <<files, now, reqId>>

\* log_message 82-83: _save_session, return.
ReqSave(r) ==
    /\ reqPc[r] = "save"
    /\ files' = SaveSession(files, sessions, reqId[r], now)
    /\ reqPc' = [reqPc EXCEPT ![r] = "done"]
    /\ UNCHANGED <<sessions, now, reqId>>

ReqInit ==
    /\ reqPc = [r \in Requests |-> "check"]
    /\ reqId \in { ids \in [Requests -> LogSessionIds \cup { <<"uuid", r>> : r \in Requests }] :
                     \A r \in Requests : ids[r] \in RequestIds(r) }

ReqOff ==
    /\ reqPc = [r \in Requests |-> "done"]
    /\ reqId = [r \in Requests |-> <<"uuid", r>>]

\* An index loaded by the n-th call of FAISS.load_local: each load builds
\* a new object.
Store(n) == <<"FAISS", n>>
NoStore == <<"None", 0>>

VARIABLES
    storeCache,     \* _vector_store_cache
    storeLoads,     \* loads of the embedding model and the index so far
    gvsPc,          \* per caller: "test", "load", "assign", "return", "done", "raised"
    gvsLoaded,      \* per caller: the store its load built, not yet assigned
    gvsGot          \* per caller: what get_vector_store returned

gvsVars == <<storeCache, storeLoads, gvsPc, gvsLoaded, gvsGot>>

\* Line 176: if _vector_store_cache is None
GvsTest(c) ==
    /\ gvsPc[c] = "test"
    /\ gvsPc' = [gvsPc EXCEPT ![c] = IF storeCache = NoStore
                                      THEN "load" ELSE "return"]
    /\ UNCHANGED <<storeCache, storeLoads, gvsLoaded, gvsGot>>

\* Lines 178-189, right-hand side: HuggingFaceEmbeddings(...) and
\* FAISS.load_local(...) build a store.
GvsLoad(c) ==
    /\ gvsPc[c] = "load"
    /\ storeLoads' = storeLoads + 1
    /\ gvsLoaded' = [gvsLoaded EXCEPT ![c] = Store(storeLoads + 1)]
    /\ gvsPc' = [gvsPc EXCEPT ![c] = "assign"]
    /\ UNCHANGED <<storeCache, gvsGot>>

\* Lines 190-191: the load raises; get_vector_store raises in its place.
GvsLoadFails(c) ==
    /\ gvsPc[c] = "load"
    /\ gvsPc' = [gvsPc EXCEPT ![c] = "raised"]
    /\ UNCHANGED <<storeCache, storeLoads, gvsLoaded, gvsGot>>

\* Line 184, the store: _vector_store_cache = <the loaded store>
GvsAssign(c) ==
    /\ gvsPc[c] = "assign"
    /\ storeCache' = gvsLoaded[c]
    /\ gvsPc' = [gvsPc EXCEPT ![c] = "return"]
    /\ UNCHANGED <<storeLoads, gvsLoaded, gvsGot>>

\* Line 193: return _vector_store_cache
GvsReturn(c) ==
    /\ gvsPc[c] = "return"
    /\ gvsGot' = [gvsGot EXCEPT ![c] = storeCache]
    /\ gvsPc' = [gvsPc EXCEPT ![c] = "done"]
    /\ UNCHANGED <<storeCache, storeLoads, gvsLoaded>>

\* Line 26 and the first calls of get_vector_store.
GvsInit ==
    /\ storeCache = NoStore
    /\ storeLoads = 0
    /\ gvsPc = [c \in Requests |-> "test"]
    /\ gvsLoaded = [c \in Requests |-> NoStore]
    /\ gvsGot = [c \in Requests |-> NoStore]

GvsOff ==
    /\ storeCache = NoStore
    /\ storeLoads = 0
    /\ gvsPc = [c \in Requests |-> "done"]
    /\ gvsLoaded = [c \in Requests |-> NoStore]
    /\ gvsGot = [c \in Requests |-> NoStore]

(***************************************************************************)
(* Specifications.                                                         *)
(***************************************************************************)
vars == <<sqlVars, loggerVars, chatVars, vecVars, exVars, logVars, reqVars, gvsVars>>

\* The variables a specification leaves alone.
exceptSql == <<loggerVars, chatVars, vecVars, exVars, logVars, reqVars, gvsVars>>
exceptChat == <<sqlVars, vecVars, exVars, logVars, reqVars, gvsVars>>
exceptVec == <<sqlVars, loggerVars, chatVars, exVars, logVars, reqVars, gvsVars>>
exceptExtract == <<sqlVars, loggerVars, chatVars, vecVars, logVars, reqVars, gvsVars>>
exceptLogger ==
    <<sqlVars, vecVars, exVars, uuidCount, requestsDone, chatPc, sessionId,
      userMessage, transcript, step, invoke, exhausted, toolCallsRun, result,
      response, saveFailed, lenBefore, reqVars, gvsVars>>
exceptRequests ==
    <<sqlVars, vecVars, exVars, logVars, uuidCount, requestsDone, chatPc,
      sessionId, userMessage, transcript, step, invoke, exhausted,
      toolCallsRun, result, response, saveFailed, lenBefore, gvsVars>>
exceptStore == <<sqlVars, loggerVars, chatVars, vecVars, exVars, logVars, reqVars>>

\* No concurrent request is under way.
ConcurrentOff == ReqOff /\ GvsOff

\* No call of sql_search_tool is under way.
SqlOff ==
    /\ sqlPc = "validate"
    /\ sqlInput = StrInput(<<>>)
    /\ sqlReturn = NoReturn
    /\ connAcquired = 0
    /\ connClosed = 0
    /\ dbExecuted = <<>>
    /\ sqlExc = NoExc

\* No call of vector_search_tool is under way.
VecOff == vecIndex = <<>> /\ vecInput = BaseInput /\ VecIdle

\* One call of sql_search_tool.
InitSql == SqlInit /\ ChatInit /\ VecOff /\ ExtractOff /\ LoggerInit
    /\ ConcurrentOff

NextSql ==
    \/ Validate /\ UNCHANGED exceptSql
    \/ Connect /\ UNCHANGED exceptSql
    \/ Cursor /\ UNCHANGED exceptSql
    \/ Execute /\ UNCHANGED exceptSql
    \/ FetchCloseReturn /\ UNCHANGED exceptSql

SpecSql == InitSql /\ [][NextSql]_vars

\* Requests to the chat endpoint, one at a time.
InitChat == ChatInit /\ SqlOff /\ VecOff /\ ExtractOff /\ LoggerInit
    /\ ConcurrentOff

NextChat ==
    \/ ChatStart /\ UNCHANGED exceptChat
    \/ AgentOutOfSteps /\ UNCHANGED exceptChat
    \/ AgentDecideRaises /\ UNCHANGED exceptChat
    \/ AgentDecideFinal /\ UNCHANGED exceptChat
    \/ AgentDecideCalls /\ UNCHANGED exceptChat
    \/ AgentDecideForcedFinal /\ UNCHANGED exceptChat
    \/ AgentTools /\ UNCHANGED exceptChat
    \/ RunQueryReturn /\ UNCHANGED exceptChat
    \/ ChatLogAndReply /\ UNCHANGED exceptChat

SpecChat == InitChat /\ [][NextChat]_vars

\* Calls of vector_search_tool, one at a time, on one index.
InitVec == VecInit /\ SqlOff /\ ChatInit /\ ExtractOff /\ LoggerInit
    /\ ConcurrentOff

NextVec ==
    \/ VecInvoke /\ UNCHANGED exceptVec
    \/ GetVectorStoreCached /\ UNCHANGED exceptVec
    \/ GetVectorStoreLoads /\ UNCHANGED exceptVec
    \/ GetVectorStoreFails /\ UNCHANGED exceptVec
    \/ VecSearchReturns /\ UNCHANGED exceptVec
    \/ VecSearchFails /\ UNCHANGED exceptVec

SpecVec == InitVec /\ [][NextVec]_vars

\* One call of _extract_tool_calls on one transcript.
InitExtract == ExtractInit /\ SqlOff /\ ChatInit /\ VecOff /\ LoggerInit
    /\ ConcurrentOff

NextExtract == ExtractReturn /\ UNCHANGED exceptExtract

SpecExtract == InitExtract /\ [][NextExtract]_vars

\* The logger's methods, called one at a time, as time passes.
InitLogger == LoggerInit /\ ChatInit /\ SqlOff /\ VecOff /\ ExtractOff
    /\ ConcurrentOff

NextLogger ==
    \/ LoggerTick /\ UNCHANGED exceptLogger
    \/ LoggerCreateSession /\ UNCHANGED exceptLogger
    \/ LoggerLogMessage /\ UNCHANGED exceptLogger
    \/ LoggerLogMessageWriteFails /\ UNCHANGED exceptLogger
    \/ LoggerEndSession /\ UNCHANGED exceptLogger
    \/ LoggerEndSessionWriteFails /\ UNCHANGED exceptLogger
    \/ LoggerEndSessionAbsent /\ UNCHANGED exceptLogger
    \/ LoggerGetSessionSummary /\ UNCHANGED exceptLogger
    \/ LoggerCrashInLogMessage /\ UNCHANGED exceptLogger

SpecLogger == InitLogger /\ [][NextLogger]_vars

\* Chat requests that run at the same time on the one logger.
InitRequests ==
    ReqInit /\ ChatInit /\ SqlOff /\ VecOff /\ ExtractOff /\ LoggerInit /\ GvsOff

NextRequests ==
    \/ \E r \in Requests : ReqCheck(r) /\ UNCHANGED exceptRequests
    \/ \E r \in Requests : ReqCreate(r) /\ UNCHANGED exceptRequests
    \/ \E r \in Requests : ReqLogMessage(r) /\ UNCHANGED exceptRequests
    \/ \E r \in Requests : ReqSave(r) /\ UNCHANGED exceptRequests

SpecRequests == InitRequests /\ [][NextRequests]_vars

\* First calls of get_vector_store that run at the same time.
InitStore ==
    GvsInit /\ ChatInit /\ SqlOff /\ VecOff /\ ExtractOff /\ LoggerInit /\ ReqOff

NextStore ==
    \/ \E c \in Requests : GvsTest(c) /\ UNCHANGED exceptStore
    \/ \E c \in Requests : GvsLoad(c) /\ UNCHANGED exceptStore
    \/ \E c \in Requests : GvsLoadFails(c) /\ UNCHANGED exceptStore
    \/ \E c \in Requests : GvsAssign(c) /\ UNCHANGED exceptStore
    \/ \E c \in Requests : GvsReturn(c) /\ UNCHANGED exceptStore

SpecStore == InitStore /\ [][NextStore]_vars

(***************************************************************************)
(* Properties of sql_search_tool (checked under SpecSql).                  *)
(***************************************************************************)
LowerChar(c) ==
    IF \E i \in 1..Len(UpperChars) : UpperChars[i] = c
    THEN LowerChars[CHOOSE i \in 1..Len(UpperChars) : UpperChars[i] = c]
    ELSE c

\* kw occurs in text in some letter case
ContainsAnyCase(text, kw) ==
    \E i \in 1..(Len(text) - Len(kw) + 1) :
        \A j \in 1..Len(kw) : LowerChar(text[i + j - 1]) = LowerChar(kw[j])

HasDenylisted(input) ==
    /\ input.type = "str"
    /\ \E k \in 1..Len(DangerousKeywords) :
          ContainsAnyCase(input.text, DangerousKeywords[k])

\* the trimmed, case-folded text starts with "select"
BeginsWithSelect(input) ==
    LET t == LStrip(input.text)
    IN  /\ Len(t) >= 6
        /\ <<LowerChar(t[1]), LowerChar(t[2]), LowerChar(t[3]),
             LowerChar(t[4]), LowerChar(t[5]), LowerChar(t[6])>>
           = <<"s","e","l","e","c","t">>

IsOneErrorRecord(ret) ==
    /\ ret.kind = "list"
    /\ Len(ret.value) = 1
    /\ "error" \in DOMAIN ret.value[1]

NoBackendCall == connAcquired = 0 /\ dbExecuted = <<>>

\* The call failed: validation refused the input, or the try block raised.
ValidationFailed(input) ==
    \/ input.type # "str"
    \/ input.text = <<>>
    \/ ~BeginsWithSelect(input)
    \/ HasDenylisted(input)
SqlFailed == ValidationFailed(sqlInput) \/ sqlExc # NoExc

\* C1: a query that contains a denylisted keyword anywhere, in any letter
\* case, never gets a connection or an execution, and its call returns one
\* error record, also when the text begins with SELECT.
C1_DenylistedRejected ==
    HasDenylisted(sqlInput) =>
        /\ NoBackendCall
        /\ sqlPc \in {"validate", "returned"}
        /\ sqlPc = "returned" => IsOneErrorRecord(sqlReturn)

C1_Witness ==
    /\ sqlPc = "returned"
    /\ BeginsWithSelect(sqlInput)
    /\ Contains(sqlInput.text, <<"d","r","o","p">>)
    /\ IsOneErrorRecord(sqlReturn)

\* C2: a query whose trimmed, case-folded text does not start with SELECT
\* returns exactly one error record and makes no backend call.
C2_NonSelectRejected ==
    (sqlInput.type = "str" /\ ~BeginsWithSelect(sqlInput)) =>
        /\ NoBackendCall
        /\ sqlPc \in {"validate", "returned"}
        /\ sqlPc = "returned" => IsOneErrorRecord(sqlReturn)

C2_Witness ==
    /\ sqlPc = "returned"
    /\ sqlInput.type = "str"
    /\ Contains(sqlInput.text, <<"s","e","l","e","c","t">>)
    /\ ~BeginsWithSelect(sqlInput)
    /\ ~HasDenylisted(sqlInput)
    /\ IsOneErrorRecord(sqlReturn)

\* C3 (as claimed): when the call has returned, every connection it
\* acquired has been closed, on every exit path.
C3_ConnectionReleased ==
    sqlPc = "returned" => connClosed = connAcquired

C5_Original ==
    (sqlPc = "returned" /\ SqlFailed) =>
        /\ IsOneErrorRecord(sqlReturn)
        /\ "query" \in DOMAIN sqlReturn.value[1]

\* C5 (amended): every failure result is one record with an error text; the
\* record of an execution failure (SQL or other) also carries the query as
\* passed in, the record of a validation failure carries the error alone.
C5_ErrorRecordShape ==
    (sqlPc = "returned" /\ SqlFailed) =>
        /\ IsOneErrorRecord(sqlReturn)
        /\ sqlExc # NoExc =>
              /\ DOMAIN sqlReturn.value[1] = {"error", "query"}
              /\ sqlReturn.value[1].query = sqlInput.text
        /\ sqlExc = NoExc => DOMAIN sqlReturn.value[1] = {"error"}

C5_Witness ==
    /\ sqlPc = "returned"
    /\ sqlExc # NoExc
    /\ sqlExc.isPg
    /\ sqlReturn.value[1].query = sqlInput.text
    /\ sqlInput.text # Strip(sqlInput.text)

\* C6 (as claimed): "DROP TABLE parts" returns the dangerous-keyword error
\* for 'DROP', with the query attached.
C6_Original ==
    (sqlPc = "returned" /\ sqlInput = StrInput(DropTableParts)) =>
        sqlReturn.value =
            <<[error |-> <<"Dangerous SQL keyword '", "DROP",
                           "' detected. Only SELECT queries are allowed.">>,
               query |-> DropTableParts]>>

\* C6 (amended): "DROP TABLE parts" returns the single record of the SELECT
\* check, error text alone; and so does every text that fails the SELECT
\* check, whether or not it contains a denylisted keyword.
C6_DropReportedAsNonSelect ==
    /\ (sqlPc = "returned" /\ sqlInput = StrInput(DropTableParts)) =>
          sqlReturn.value = <<OnlySelectError>>
    /\ (sqlPc = "returned" /\ sqlInput.type = "str" /\ sqlInput.text # <<>>
          /\ ~BeginsWithSelect(sqlInput)) =>
          sqlReturn.value = <<OnlySelectError>>

C6_Witness ==
    /\ sqlPc = "returned"
    /\ sqlInput = StrInput(DropTableParts)
    /\ sqlReturn.kind = "list"

(***************************************************************************)
(* Properties of the control loop and the chat endpoint (checked under     *)
(* SpecChat).                                                              *)
(***************************************************************************)
RunQueryDone == chatPc \in {"log", "done"}

\* Some part of text e appears in text t.
SharesPart(t, e) ==
    \E i \in 1..Len(t.parts), j \in 1..Len(e.parts) : t.parts[i] = e.parts[j]

\* C7 (as claimed): one run of the control loop dispatches at most the
\* configured maximum (max_iterations of the chat endpoint's agent) of
\* tool calls.
C7_ToolCallsBounded == toolCallsRun <= ChatMaxIterations

\* C8 (as claimed): when the step limit ends the loop, run_query returns
\* the transcript built so far, its tool calls counted, an answer taken
\* from it and a marker of the exhaustion.
C8_ExhaustionReported ==
    (RunQueryDone /\ exhausted) =>
        /\ result.messages = transcript
        /\ result.output = LastContent(transcript)
        /\ DOMAIN result \cap {"error", "exhausted"} # {}

\* C9: when agent.invoke raises, the agent runs no further step, run_query
\* returns the error text as answer, the error marker, an empty transcript
\* and a count of 0, and the endpoint logs it: the session has exactly one
\* exchange more than when the request arrived, the one of the empty
\* transcript.
C9_FailedRunLogged ==
    invoke.status = "raised" =>
        /\ chatPc \in {"invoked", "log", "done"}
        /\ RunQueryDone =>
              /\ DOMAIN result = {"output", "messages", "tool_calls", "error"}
              /\ result.output.len > 0
              /\ result.error = invoke.exc
              /\ result.messages = <<>>
              /\ result.tool_calls = 0
        /\ chatPc = "done" =>
              /\ sessionId \in DOMAIN sessions
              /\ Len(sessions[sessionId].messages) = lenBefore + 1
              /\ LET last == sessions[sessionId].messages[lenBefore + 1]
                 IN  /\ last.total_messages_in_conversation = 0
                     /\ last.tool_calls = <<>>
                     /\ last.tool_calls_count = 0
                     /\ last.user_message = userMessage

C9_Witness ==
    /\ chatPc = "done"
    /\ invoke.status = "raised"
    /\ toolCallsRun > 0
    /\ lenBefore = 1
    /\ Len(sessions[sessionId].messages) = 2

\* C10 (as claimed): when the decision step or the write of the session
\* record fails, the reply carries no text of the underlying exception.
C10_NoInternalDetail ==
    chatPc = "done" =>
        /\ invoke.status = "raised" => ~SharesPart(response.reply, invoke.exc)
        /\ saveFailed => ~SharesPart(response.reply, SaveErrorText)

\* C11 (as claimed): the count run_query reports, and the tool_calls_count
\* the endpoint hands to log_message, is the number of ToolCall entries of
\* the transcript's assistant messages.
C11_CountIsToolCalls ==
    /\ (RunQueryDone /\ invoke.status = "returned") =>
           result.tool_calls = CountToolCalls(transcript)
    /\ (chatPc = "done" /\ invoke.status = "returned") =>
           sessions[sessionId].messages[lenBefore + 1].tool_calls_count =
               CountToolCalls(transcript)

(***************************************************************************)
(* Properties of vector_search_tool (checked under SpecVec).               *)
(***************************************************************************)
\* The call has ended by returning the hits of a search.
VecReturnedHits == vecPc = "done" /\ vecFault = "none"

\* The documents of the whole index that pass the filters of the call.
MatchingDocs ==
    { c \in 1..Len(vecIndex) :
        PassesFilters(Document(c, vecIndex[c]), vecArgs.document_type,
                      vecArgs.appliance_type) }

\* The candidates the over-fetch retrieves.
Candidates == 1..MinOf(SearchK(vecArgs.k), Len(vecIndex))

\* C12: a search returns at most k hits; the i-th hit has rank i and is the
\* i-th of the candidates that pass the filters, in similarity order, so
\* the ranks count the filtered and truncated list and not the candidates.
C12_RanksOverFinalList ==
    VecReturnedHits =>
        /\ Len(vecReturn) <= vecArgs.k
        /\ Len(vecReturn) = MinOf(vecArgs.k, Cardinality(MatchingDocs \cap Candidates))
        /\ \A i \in 1..Len(vecReturn) :
              /\ vecReturn[i].rank = i
              /\ vecReturn[i].content \in MatchingDocs \cap Candidates
              /\ Cardinality({ c \in MatchingDocs : c <= vecReturn[i].content }) = i

\* A nearer candidate was filtered away and a farther one was cut off.
C12_Witness ==
    /\ VecReturnedHits
    /\ Len(vecReturn) = vecArgs.k
    /\ vecReturn[1].rank = 1
    /\ vecReturn[1].content > 1
    /\ Cardinality(MatchingDocs \cap Candidates) > vecArgs.k

\* C13: with a document_type other than "all", every hit returned has the
\* document_type asked for (as the function receives it).
C13_DocumentTypeFilter ==
    (VecReturnedHits /\ vecArgs.document_type # "all") =>
        \A i \in 1..Len(vecReturn) :
            vecReturn[i].document_type = vecArgs.document_type

\* Hits were returned and a candidate of another type was left out.
C13_Witness ==
    /\ VecReturnedHits
    /\ vecArgs.document_type = "repair"
    /\ Len(vecReturn) > 0
    /\ \E c \in Candidates : vecIndex[c].document_type # "repair"

\* C14 (as claimed): with an appliance_type other than "all", every hit
\* returned has that appliance_type or is a policy document; no blog or
\* repair hit without an appliance_type is returned.
C14_ApplianceTypeFilter ==
    (VecReturnedHits /\ vecArgs.appliance_type # "all") =>
        \A i \in 1..Len(vecReturn) :
            \/ vecReturn[i].appliance_type = vecArgs.appliance_type
            \/ vecReturn[i].document_type = "policy"

\* C15 (as claimed): a search with a filter returns fewer than k hits only
\* when the index holds fewer than k documents that pass the filters.
C15_FilledUnlessCorpusShort ==
    (/\ VecReturnedHits
     /\ (vecArgs.document_type # "all" \/ vecArgs.appliance_type # "all")
     /\ Len(vecReturn) < vecArgs.k)
        => Cardinality(MatchingDocs) < vecArgs.k

\* The four ranges, read on the input as the caller sent it.
InRanges(input) ==
    /\ input.query.core >= MinQueryLen
    /\ input.query.core <= MaxQueryLen
    /\ input.k.isInt
    /\ input.k.val \in MinK..MaxK
    /\ input.document_type \in DocumentTypes
    /\ input.appliance_type \in ApplianceTypes

\* The four ranges with the two type fields read without regard to case.
InRangesAnyCase(input) ==
    InRanges([input EXCEPT !.document_type = LowerWord(@),
                           !.appliance_type = LowerWord(@)])

\* The running or ended call was rejected without a touch of the index.
RejectedUntouched ==
    /\ vecPc = "done"
    /\ vecFault = "schema"
    /\ vecRaised # NoRaise \/ (Len(vecReturn) = 1 /\ "error" \in DOMAIN vecReturn[1])
    /\ ~vecLoaded
    /\ ~vecSearched

C17_FailuresReturnedAsData ==
    (vecPc = "done" /\ vecFault # "none") =>
        /\ vecRaised = NoRaise
        /\ Len(vecReturn) = 1
        /\ DOMAIN vecReturn[1] = {"error", "error_type", "query"}
        /\ vecReturn[1].error_type =
              CASE vecFault = "schema" -> "ValidationError"
                [] vecFault = "load" -> "VectorStoreError"
                [] vecFault = "retrieval" -> "SearchError"

(***************************************************************************)
(* Properties of _extract_tool_calls (checked under SpecExtract).          *)
(***************************************************************************)
\* The tool calls and tool results of a transcript, in its order: at is
\* the index of the message.
RECURSIVE EventsFrom(_, _)
EventsFrom(msgs, i) ==
    IF i > Len(msgs) THEN <<>>
    ELSE [j \in 1..Len(msgs[i].tool_calls) |->
             [kind |-> "call", id |-> msgs[i].tool_calls[j].id, at |-> i, len |-> 0]]
         \o (IF msgs[i].type = "tool"
             THEN <<[kind |-> "result", id |-> msgs[i].tool_call_id, at |-> i,
                     len |-> msgs[i].content.len]>>
             ELSE <<>>)
         \o EventsFrom(msgs, i + 1)

CallEvents(ev) == { n \in 1..Len(ev) : ev[n].kind = "call" }
ResultEvents(ev) == { n \in 1..Len(ev) : ev[n].kind = "result" }

\* The results after call n that bear its id.
LaterResults(ev, n) == { r \in ResultEvents(ev) : r > n /\ ev[r].id = ev[n].id }
\* The calls before event n that bear its id.
EarlierCalls(ev, n) == { c \in CallEvents(ev) : c < n /\ ev[c].id = ev[n].id }

\* The results no earlier call bears the id of.
Unmatched(ev) == { r \in ResultEvents(ev) : EarlierCalls(ev, r) = {} }

\* The record of the returned list that stands for event n, a call or an
\* unmatched result: the records keep the order of the events.
RecordOf(ev, n) ==
    exResult[Cardinality({ m \in CallEvents(ev) \cup Unmatched(ev) : m <= n })]

\* The calls have distinct ids, every call has exactly one result after it
\* and every result is the result of a call before it.
PairedInOrder(ev) ==
    /\ \A c, d \in CallEvents(ev) : ev[c].id = ev[d].id => c = d
    /\ \A c \in CallEvents(ev) : Cardinality(LaterResults(ev, c)) = 1
    /\ \A r \in ResultEvents(ev) : EarlierCalls(ev, r) # {}

\* C18: for a transcript of N tool calls with distinct ids, each followed
\* by its tool result, _extract_tool_calls returns N tool_call records,
\* in the order of the calls, each with the result_length of its own
\* result, and no tool_result record.
C18_PairedCallsMerged ==
    LET ev == EventsFrom(exMessages, 1)
    IN  (exPc = "returned" /\ PairedInOrder(ev)) =>
            /\ Len(exResult) = Cardinality(CallEvents(ev))
            /\ \A i \in 1..Len(exResult) : exResult[i].type = "tool_call"
            /\ \A c \in CallEvents(ev) :
                  LET record == RecordOf(ev, c)
                  IN  /\ record.id = ev[c].id
                      /\ "result_length" \in DOMAIN record
                      /\ \A r \in LaterResults(ev, c) :
                            record.result_length = ev[r].len

\* Two calls of one assistant message, their results in the other order
\* and of different lengths.
C18_Witness ==
    /\ exPc = "returned"
    /\ PairedInOrder(EventsFrom(exMessages, 1))
    /\ Len(exMessages) = 3
    /\ Len(exMessages[1].tool_calls) = 2
    /\ exMessages[2].tool_call_id = 2
    /\ Len(exResult) = 2
    /\ exResult[1].result_length # exResult[2].result_length

\* C19: a result is merged only into the record of a call of the same id
\* that comes before it; a result with no such call (the id is never
\* called, or is called only later) is returned as a tool_result record
\* of its own, and the record of a call that has no result after it
\* carries no result data.
C19_MergeOnlyIntoEarlierCall ==
    LET ev == EventsFrom(exMessages, 1)
    IN  exPc = "returned" =>
            /\ Len(exResult) =
                  Cardinality(CallEvents(ev)) + Cardinality(Unmatched(ev))
            /\ \A r \in Unmatched(ev) :
                  LET record == RecordOf(ev, r)
                  IN  /\ record.type = "tool_result"
                      /\ record.tool_call_id = ev[r].id
                      /\ record.result_length = ev[r].len
            /\ \A c \in CallEvents(ev) :
                  LET record == RecordOf(ev, c)
                      later == LaterResults(ev, c)
                  IN  /\ record.type = "tool_call"
                      /\ record.id = ev[c].id
                      /\ "result_length" \in DOMAIN record =>
                            \E r \in later : record.result_length = ev[r].len
                      /\ later = {} =>
                            DOMAIN record \cap {"result_length", "result_preview"} = {}
                      /\ (later # {} /\ EarlierCalls(ev, c) = {}) =>
                            "result_length" \in DOMAIN record

\* A result before its call and a result of an id never called: two
\* records of their own, and the call's record without result data.
C19_Witness ==
    /\ exPc = "returned"
    /\ Len(exMessages) = 3
    /\ exMessages[1].type = "tool" /\ exMessages[1].tool_call_id = 1
    /\ exMessages[2].type = "ai" /\ Len(exMessages[2].tool_calls) = 1
    /\ exMessages[2].tool_calls[1].id = 1
    /\ exMessages[3].type = "tool" /\ exMessages[3].tool_call_id = 2
    /\ Len(exResult) = 3
    /\ exResult[1].type = "tool_result"
    /\ "result_length" \notin DOMAIN exResult[2]
    /\ exResult[3].type = "tool_result"

(***************************************************************************)
(* Properties of the logger (checked under SpecLogger).                    *)
(***************************************************************************)
\* The exchange the n-th call logged, as log_message builds it.
LoggedToolCalls ==
    [n \in 1..MaxLogCalls |-> ExtractToolCalls(LoggedRun(n).messages)]
LoggedBy(entry, n) ==
    /\ entry.user_message = Question(n)
    /\ entry.agent_response = StoredResponse(LoggedRuns[n].output)
    /\ entry.tool_calls_count = LoggedRuns[n].tool_calls
    /\ entry.tool_calls = LoggedToolCalls[n]
    /\ entry.total_messages_in_conversation = Len(LoggedRuns[n].messages)

\* C20: an id that log_message has named is in the session table, created
\* by the first call if it was not there; the live record of a session
\* holds one exchange per call of log_message on it, in the order of the
\* calls; and when the last of these calls has returned, the file written
\* last for the session holds the same exchanges.
C20_EveryExchangeWritten ==
    \A id \in LogSessionIds :
        /\ logHistory[id] # <<>> => id \in DOMAIN sessions
        /\ id \in DOMAIN sessions =>
              /\ Len(sessions[id].messages) = Len(logHistory[id])
              /\ \A i \in 1..Len(logHistory[id]) :
                    LoggedBy(sessions[id].messages[i], logHistory[id][i])
              /\ (logHistory[id] # <<>> /\ logReturned[id]) =>
                    /\ lastWrite[id] \in DOMAIN files
                    /\ files[lastWrite[id]].session_id = id
                    /\ files[lastWrite[id]].messages = sessions[id].messages

\* A session created by its first log_message holds three exchanges, the
\* second of which could not be written; the last was written a second
\* after the first, to another file.
C20_Witness ==
    \E id \in LogSessionIds :
        /\ id \in DOMAIN sessions
        /\ logHistory[id] = <<1, 2, 4>>
        /\ logReturned[id]
        /\ lastWrite[id] = <<id, 1>>
        /\ <<id, 0>> \in DOMAIN files
        /\ Len(files[<<id, 0>>].messages) = 1
        /\ Len(files[<<id, 1>>].messages) = 3

\* The sum of the tool_calls counts run_query returned to the calls ns.
RECURSIVE SumOfRuns(_)
SumOfRuns(ns) ==
    IF ns = <<>> THEN 0 ELSE LoggedRuns[Head(ns)].tool_calls + SumOfRuns(Tail(ns))

\* C23: get_session_summary of a live session returns total_messages equal
\* to the number of exchanges logged on it, total_tool_calls equal to the
\* sum of the counts logged with them, and avg_tool_calls_per_message equal
\* to their quotient, 0 when the session holds no exchange.
C23_SummaryCounts ==
    (logLast.op = "get_session_summary" /\ logLast.id \in DOMAIN sessions) =>
        LET h == logHistory[logLast.id]
        IN  /\ logLast.ret.total_messages = Len(h)
            /\ logLast.ret.total_tool_calls = SumOfRuns(h)
            /\ logLast.ret.avg_tool_calls_per_message =
                  IF Len(h) = 0 THEN Ratio(0, 1)
                  ELSE Ratio(SumOfRuns(h), Len(h))

\* The summary of a session with two exchanges, of 2 and 0 tool calls:
\* 2 messages, 2 tool calls, an average of 2/2.
C23_Witness ==
    /\ logLast.op = "get_session_summary"
    /\ logLast.id \in DOMAIN sessions
    /\ Len(sessions[logLast.id].messages) = 2
    /\ sessions[logLast.id].messages[1].tool_calls_count = 2
    /\ sessions[logLast.id].messages[2].tool_calls_count = 0
    /\ logLast.ret.total_messages = 2
    /\ logLast.ret.total_tool_calls = 2
    /\ logLast.ret.avg_tool_calls_per_message = Ratio(2, 2)

\* The step is a call of end_session that returned ret.
EndSessionStep(ret) ==
    /\ logCalls' = logCalls + 1
    /\ logLast'.op = "end_session"
    /\ logLast'.ret = ret

\* C24: a call of end_session on a live session that returns has written
\* one file, which holds the session's exchanges, the summary over all of
\* them and ended_at, and has left every other file as it was; after it the
\* id is not in the table and get_session_summary of it is empty.  The
\* removal comes after the write: when the write raises, the session is
\* still in the table and no file has changed.
C24_EndSessionWritesThenRemoves ==
    [][/\ EndSessionStep(<<>>) =>
            LET id == logLast'.id
                f == lastWrite'[id]
            IN  /\ id \in DOMAIN sessions
                /\ f \in DOMAIN files'
                /\ f[1] = id
                /\ \A g \in DOMAIN files' \ {f} :
                      g \in DOMAIN files /\ files'[g] = files[g]
                /\ DOMAIN files \subseteq DOMAIN files'
                /\ files'[f].messages = sessions[id].messages
                /\ files'[f].summary.total_messages = Len(logHistory[id])
                /\ files'[f].summary.total_tool_calls = SumOfRuns(logHistory[id])
                /\ files'[f].ended_at = now
                /\ id \notin DOMAIN sessions'
                /\ \A other \in DOMAIN sessions \ {id} :
                      other \in DOMAIN sessions' /\ sessions'[other] = sessions[other]
                /\ GetSessionSummary(sessions', id) = <<>>
       /\ EndSessionStep(<<"raised">>) =>
            /\ logLast'.id \in DOMAIN sessions'
            /\ files' = files]_vars

\* A session of two exchanges was ended: its last file holds both and a
\* summary of two messages, and the id is no longer in the table.
C24_Witness ==
    /\ logLast.op = "end_session"
    /\ logLast.ret = <<>>
    /\ logLast.id \notin DOMAIN sessions
    /\ lastWrite[logLast.id] \in DOMAIN files
    /\ Len(files[lastWrite[logLast.id]].messages) = 2
    /\ files[lastWrite[logLast.id]].summary.total_messages = 2
    /\ GetSessionSummary(sessions, logLast.id) = <<>>

\* The sum of the values of a histogram.
RECURSIVE SumValues(_)
SumValues(h) ==
    IF DOMAIN h = {} THEN 0
    ELSE LET k == CHOOSE x \in DOMAIN h : TRUE
         IN  h[k] + SumValues([x \in DOMAIN h \ {k} |-> h[x]])

\* C29 (as claimed): in the summary of every live session, the values of
\* tool_usage sum to total_tool_calls.
C29_HistogramSumsToTotal ==
    \A id \in DOMAIN sessions :
        LET summary == GetSessionSummary(sessions, id)
        IN  SumValues(summary.tool_usage) = summary.total_tool_calls

\* The files _save_session wrote for a session id.
Artifacts(id) == { f \in DOMAIN files : f[1] = id }

\* C21 (as claimed): when the process has died inside log_message for a
\* session whose earlier exchanges were on disk, some file of the session
\* still holds those exchanges in full.
C21_CrashKeepsPriorExchanges ==
    logLast.op = "crash" =>
        \E f \in Artifacts(logLast.id) :
            /\ "messages" \in DOMAIN files[f]
            /\ files[f].messages = logLast.ret

\* The files end_session wrote for a session id: they hold ended_at and a
\* summary of all their exchanges (a file log_message wrote after an
\* end_session that raised holds an exchange more than its summary counts).
EndedArtifacts(id) ==
    { f \in Artifacts(id) :
        /\ "ended_at" \in DOMAIN files[f]
        /\ files[f].summary.total_messages = Len(files[f].messages) }

\* No exchange of the record old is in the list messages.
NoneOf(old, messages) ==
    \A i \in 1..Len(old.messages), j \in 1..Len(messages) :
        old.messages[i] # messages[j]

\* A session that is live while a file of an ended session of the same id
\* exists was created after that end: its created_at is not before the
\* ended_at of the file, its exchanges and its summary are those of the
\* calls of log_message since then, and neither it nor a file of the id
\* written in a later second holds an exchange of the ended session.
FreshAfterEnd ==
    \A id \in LogSessionIds : \A f \in EndedArtifacts(id) :
        /\ id \in DOMAIN sessions =>
              /\ sessions[id].created_at >= files[f].ended_at
              /\ Len(sessions[id].messages) = Len(logHistory[id])
              /\ NoneOf(files[f], sessions[id].messages)
              /\ GetSessionSummary(sessions, id).total_messages
                    = Len(logHistory[id])
        /\ \A g \in Artifacts(id) :
              (g[2] > f[2] /\ "messages" \in DOMAIN files[g]) =>
                  NoneOf(files[f], files[g].messages)

\* The step is a call of log_message that returned, for an id that was not
\* in the table.
LogMessageCreatesStep ==
    /\ logCalls' = logCalls + 1
    /\ logLast'.op = "log_message"
    /\ logLast'.ret = <<>>
    /\ logLast'.id \notin DOMAIN sessions

\* C30: after end_session of an id, log_message for the id makes a new
\* record, created at the time of the call, that holds the new exchange
\* alone and is written as such; the exchanges of the ended session are in
\* no later live record, summary or file of the id; and end_session of an
\* id that is not in the table changes neither the table nor a file.
C30_FreshSessionAfterEnd ==
    /\ []FreshAfterEnd
    /\ [][/\ LogMessageCreatesStep =>
              LET id == logLast'.id
              IN  /\ sessions'[id].created_at = now
                  /\ Len(sessions'[id].messages) = 1
                  /\ LoggedBy(sessions'[id].messages[1], logCalls')
                  /\ DOMAIN sessions'[id] = {"session_id", "created_at", "messages"}
                  /\ files'[<<id, now>>] = sessions'[id]
          /\ EndSessionStep(<<"absent">>) =>
              /\ logLast'.id \notin DOMAIN sessions
              /\ UNCHANGED <<sessions, files>>]_vars

\* A session ended in the first second with one exchange; a log_message a
\* second later made a new record of the same id with one other exchange,
\* written to another file.
C30_Witness ==
    \E id \in LogSessionIds :
        /\ <<id, 0>> \in EndedArtifacts(id)
        /\ Len(files[<<id, 0>>].messages) = 1
        /\ id \in DOMAIN sessions
        /\ sessions[id].created_at = 1
        /\ Len(sessions[id].messages) = 1
        /\ sessions[id].messages[1] # files[<<id, 0>>].messages[1]
        /\ <<id, 1>> \in DOMAIN files
        /\ files[<<id, 1>>] = sessions[id]

\* C22 (as claimed): whatever calls of log_message and end_session were
\* made, at most one file exists per session id, and it is the file written
\* last.
C22_OneArtifactPerSession ==
    \A id \in LogSessionIds :
        /\ Cardinality(Artifacts(id)) <= 1
        /\ Artifacts(id) # {} => Artifacts(id) = {lastWrite[id]}

(***************************************************************************)
(* Properties of concurrent requests (SpecRequests, SpecStore).            *)
(***************************************************************************)
\* The places of request r's exchange in the live record of its session.
ExchangesOf(r) ==
    IF reqId[r] \notin DOMAIN sessions THEN {}
    ELSE { i \in 1..Len(sessions[reqId[r]].messages) :
             sessions[reqId[r]].messages[i].user_message = Question(r) }

\* C25 (as claimed): whatever the interleaving, the exchange of every
\* request whose log_message has returned is in the live record of its
\* session, once.
C25_NoLostExchange ==
    \A r \in Requests :
        reqPc[r] = "done" => Cardinality(ExchangesOf(r)) = 1

\* C26 (as claimed): however the first calls interleave, the index is
\* loaded at most once and the callers that returned got the same store,
\* the one in the cache.
C26_SingleFlight ==
    /\ storeLoads <= 1
    /\ \A c \in Requests : gvsPc[c] = "done" => gvsGot[c] = storeCache
    /\ \A c, d \in Requests :
          (gvsPc[c] = "done" /\ gvsPc[d] = "done") => gvsGot[c] = gvsGot[d]

(***************************************************************************)
(* Properties of the SELECT check and of the denylist (lines 107-116).     *)
(***************************************************************************)
\* The first whitespace-delimited word of the trimmed text, <<>> if none.
LeadingToken(text) ==
    LET t == Strip(text)
    IN  IF t = <<>> THEN <<>>
        ELSE SubSeq(t, 1,
                    CHOOSE j \in 1..Len(t) :
                        /\ \A k \in 1..j : t[k] \notin Whitespace
                        /\ j = Len(t) \/ t[j + 1] \in Whitespace)

\* C27 (as claimed): a query that validation lets through to the backend has
\* SELECT, in some letter case, as its whole first word.
C27_LeadingTokenIsSelect ==
    sqlPc = "connect" => Upper(LeadingToken(sqlInput.text)) = SELECT

\* w is one of the whitespace-delimited words of s.
IsWord(s, w) ==
    \E i \in 1..(Len(s) - Len(w) + 1) :
        /\ SubSeq(s, i, i + Len(w) - 1) = w
        /\ i = 1 \/ s[i - 1] \in Whitespace
        /\ i + Len(w) - 1 = Len(s) \/ s[i + Len(w)] \in Whitespace

\* A denylisted keyword occurs in the upper-cased text, but no word of the
\* text is a denylisted keyword: the keyword is part of an identifier.
DenylistedInsideWord(input) ==
    /\ input.type = "str"
    /\ LET u == Upper(input.text)
       IN  /\ \E k \in 1..Len(DangerousKeywords) :
                 Contains(u, DangerousKeywords[k])
           /\ \A k \in 1..Len(DangerousKeywords) :
                 ~IsWord(u, DangerousKeywords[k])

\* C28: a query whose first word is SELECT and that has a denylisted keyword
\* only inside a longer word is refused by validation: the call returns the
\* dangerous-keyword error of the first keyword of the list found in the
\* text, and no connection is asked for and nothing is executed.
C28_SubstringDenylist ==
    (/\ sqlPc # "validate"
     /\ Upper(LeadingToken(sqlInput.text)) = SELECT
     /\ DenylistedInsideWord(sqlInput)) =>
        /\ NoBackendCall
        /\ sqlPc = "returned"
        /\ sqlReturn = Returned(<<DangerousKeywordError(
                            FirstDangerous(Upper(sqlInput.text)))>>)

\* "SELECT created_at FROM parts" came back with the CREATE error.
C28_Witness ==
    /\ sqlInput = StrInput(SelectCreatedAt)
    /\ sqlPc = "returned"
    /\ sqlReturn = Returned(<<DangerousKeywordError(6)>>)
    /\ NoBackendCall

=============================================================================
